---------------------------- MODULE Spec2Model ----------------------------
(***************************************************************************)
(* DirCraft: the tree-structure parser, the classification of its paths  *)
(* and the creation of the structure (src/src/dircraft.js), with the      *)
(* exit code of main (src/bin/cli.js).                                    *)
(*                                                                         *)
(* Text is modelled as a sequence of one-character strings.  The module    *)
(* language has no non-ASCII string literals, so the box-drawing glyphs    *)
(* of the input format are written with ASCII stand-ins:                   *)
(*      "|"  stands for U+2502  (vertical bar of the tree)                 *)
(*      "+"  stands for U+251C  (tee of a branch glyph)                    *)
(*      "L"  stands for U+2514  (corner of a last-child branch glyph)      *)
(*      "-"  stands for U+2500  (horizontal dash of a branch glyph)        *)
(* "\n" is the line feed, " " the only whitespace character of the model;  *)
(* names and comments are written in lower-case letters.                   *)
(***************************************************************************)
EXTENDS Naturals, Sequences, FiniteSets

VARIABLES
    content,      \* parseTreeStructure: the input text (a flat character sequence)
    lines,        \* parseTreeStructure: the non-blank lines of content
    i,            \* parseTreeStructure: index of the next line (1-based; the code's i + 1)
    paths,        \* parseTreeStructure: list of complete paths
    comments,     \* parseTreeStructure: map of comments by path
    parentStack,  \* parseTreeStructure: stack of parents at each level
    level,        \* parseTreeStructure: level computed for the line handled last
    pc,           \* parseTreeStructure: "start", "loop", "done" or "error"
    line,         \* a single line handed to the two line functions
    result,       \* extractNameAndComment(line), once computed
    indent,       \* calculateIndentationLevel(line), once computed
    lpc,          \* "idle", "ready", "extracted" or "measured"
    pathNo,       \* separateDirectoriesAndFiles: index of the next path of the for loop
    directories,  \* separateDirectoriesAndFiles: the Set of directories, in insertion order
    files,        \* separateDirectoriesAndFiles: the list of files
    currentDir,   \* separateDirectoriesAndFiles: the directory the while loop is at
    classified,   \* separateDirectoriesAndFiles: the returned { directories, files }
    cpc,          \* separateDirectoriesAndFiles: "idle", "for", "while" or "done"
    mode,         \* the function called: "text" (parseDirectoryFromText) or "file" (parseDirectoryStructure)
    outputDir,    \* the outputDir argument
    skipConfirmation,  \* options.skipConfirmation
    dryRun,       \* options.dryRun
    asked,        \* whether confirmAction has put its question
    answer,       \* the answer given to confirmAction
    itemNo,       \* index of the next directory or file of the two creation loops
    ops,          \* the calls made on fileSystem, each with its state
    logs,         \* the messages handed to the logger
    ret,          \* the value the called function resolves with
    exitCode,     \* main: the exit code
    mpc,          \* position in the called function and in main
    calls,        \* the calls of the parser and the classifier that have returned, with their results
    argv,         \* parseArgs: the argument list
    options,      \* parseArgs: the options object
    helpShown,    \* main: whether showHelp was called
    apc           \* parseArgs and the head of main: "idle", "args", "main" or "left"

vars == <<content, lines, i, paths, comments, parentStack, level, pc,
          line, result, indent, lpc,
          pathNo, directories, files, currentDir, classified, cpc,
          mode, outputDir, skipConfirmation, dryRun, asked, answer, itemNo,
          ops, logs, ret, exitCode, mpc,
          calls, argv, options, helpShown, apc>>

parseVars == <<content, lines, i, paths, comments, parentStack, level, pc>>
lineVars == <<line, result, indent, lpc>>
classVars == <<pathNo, directories, files, currentDir, classified, cpc>>
callVars == <<mode, outputDir, skipConfirmation, dryRun>>
runVars == <<asked, answer, itemNo, ops, logs, ret, exitCode, mpc>>
histVars == <<calls>>
cliVars == <<argv, options, helpShown, apc>>

----------------------------------------------------------------------------
(* Characters *)

VBAR == "|"
TEE == "+"
ELL == "L"
DASH == "-"
SP == " "
HASH == "#"
SLASH == "/"
DOT == "."
NL == "\n"

\* What /\s/ and String.prototype.trim treat as whitespace inside a line.
Whitespace == {SP}

----------------------------------------------------------------------------
(* String primitives of the JavaScript runtime used by the parser *)

RECURSIVE TrimStart(_)
TrimStart(s) ==
    IF s # <<>> /\ Head(s) \in Whitespace THEN TrimStart(Tail(s)) ELSE s

RECURSIVE TrimEnd(_)
TrimEnd(s) ==
    IF s # <<>> /\ s[Len(s)] \in Whitespace
    THEN TrimEnd(SubSeq(s, 1, Len(s) - 1))
    ELSE s

\* String.prototype.trim
Trim(s) == TrimEnd(TrimStart(s))

\* Index of the first occurrence of character c in s, 0 when there is none.
IndexOf(s, c) ==
    IF \E k \in 1..Len(s) : s[k] = c
    THEN CHOOSE k \in 1..Len(s) : s[k] = c /\ \A m \in 1..(k - 1) : s[m] # c
    ELSE 0

\* String.prototype.split(c): the segments between the occurrences of c.
RECURSIVE Split(_, _)
Split(s, c) ==
    LET k == IndexOf(s, c) IN
    IF k = 0 THEN <<s>>
    ELSE <<SubSeq(s, 1, k - 1)>> \o Split(SubSeq(s, k + 1, Len(s)), c)

\* String.prototype.endsWith(c) for a one-character suffix.
EndsWith(s, c) == s # <<>> /\ s[Len(s)] = c

\* s without its longest leading run of characters of class cls.
RECURSIVE SkipWhile(_, _)
SkipWhile(s, cls) ==
    IF s # <<>> /\ Head(s) \in cls THEN SkipWhile(Tail(s), cls) ELSE s

----------------------------------------------------------------------------
(* extractNameAndComment *)

\* parts.length > 1 ? parts[1].trim() : ""
CommentOf(parts) == IF Len(parts) > 1 THEN Trim(parts[2]) ELSE <<>>

\* Variant of ReplaceTreePrefix with the branch glyph optional in the pattern,
\* /^[\s|]*(?:[+L]--)?\s*/: the leading run goes even with no glyph after it.
ReplaceTreePrefixGlyphOptional(rawName) ==
    LET rest == SkipWhile(rawName, Whitespace \cup {VBAR}) IN
    IF /\ Len(rest) >= 3
       /\ rest[1] \in {TEE, ELL}
       /\ rest[2] = DASH
       /\ rest[3] = DASH
    THEN SkipWhile(SubSeq(rest, 4, Len(rest)), Whitespace)
    ELSE rest

\* rawName.replace(/^[\s|]*[+L]--\s*/, ""): the leading run of whitespace and
\* vertical bars, one branch glyph and the whitespace after it are removed when
\* the branch glyph is there; otherwise the pattern does not match and the
\* string is returned as it is.
ReplaceTreePrefix(rawName) ==
    LET rest == SkipWhile(rawName, Whitespace \cup {VBAR}) IN
    IF /\ Len(rest) >= 3
       /\ rest[1] \in {TEE, ELL}
       /\ rest[2] = DASH
       /\ rest[3] = DASH
    THEN SkipWhile(SubSeq(rest, 4, Len(rest)), Whitespace)
    ELSE rawName

extractNameAndComment(l) ==
    LET parts == Split(l, HASH)
        rawName == Trim(parts[1])
        comment == CommentOf(parts)
        cleanName == Trim(ReplaceTreePrefix(rawName))
    IN [name |-> cleanName, comment |-> comment]

----------------------------------------------------------------------------
(* calculateIndentationLevel *)

\* line.match(/|/g): every vertical bar of the line, in order.
MatchBars(l) == SelectSeq(l, LAMBDA ch : ch = VBAR)

\* Variant of calculateIndentationLevel that counts the vertical bars of the
\* name part only, the text before the first '#'.
calculateIndentationLevelOfName(l) == Len(MatchBars(Split(l, HASH)[1]))

calculateIndentationLevel(l) ==
    LET matches == MatchBars(l) IN
    IF matches # <<>> THEN Len(matches) ELSE 0

----------------------------------------------------------------------------
(* parseTreeStructure *)

EmptyMap == [p \in {} |-> <<>>]

\* comments[key] = value
Put(map, key, value) ==
    [p \in (DOMAIN map) \cup {key} |-> IF p = key THEN value ELSE map[p]]

\* (line) => line.trim(), the filter of the split lines
NonBlank(l) == Trim(l) # <<>>

\* content.split("\n").filter((line) => line.trim())
SplitLines(text) == SelectSeq(Split(text, NL), NonBlank)

\* Variant of NoLines with the early return left out.
NoLinesNever(ls) == FALSE

\* lines.length === 0, the guard of the early return
NoLines(ls) == Len(ls) = 0

\* Variant of RootPaths that pushes the root name even when it is empty.
RootPathsAlways(rootName) == <<rootName>>

\* paths after the root line: if (rootName) paths.push(rootName)
RootPaths(rootName) == IF rootName # <<>> THEN <<rootName>> ELSE <<>>

\* comments after the root line
RootComments(rootName, rootComment) ==
    IF rootName # <<>> /\ rootComment # <<>>
    THEN Put(EmptyMap, rootName, rootComment)
    ELSE EmptyMap

\* Variant of PopTo that is off by one: while (parentStack.length > level).
RECURSIVE PopToLevel(_, _)
PopToLevel(stack, lvl) ==
    IF Len(stack) > lvl
    THEN PopToLevel(SubSeq(stack, 1, Len(stack) - 1), lvl)
    ELSE stack

\* Variant of PopTo that keeps one entry too many:
\* while (parentStack.length > level + 2).
RECURSIVE PopToKeepsOne(_, _)
PopToKeepsOne(stack, lvl) ==
    IF Len(stack) > lvl + 2
    THEN PopToKeepsOne(SubSeq(stack, 1, Len(stack) - 1), lvl)
    ELSE stack

\* while (parentStack.length > level + 1) parentStack.pop()
RECURSIVE PopTo(_, _)
PopTo(stack, lvl) ==
    IF Len(stack) > lvl + 1
    THEN PopTo(SubSeq(stack, 1, Len(stack) - 1), lvl)
    ELSE stack

\* Variant of ParentPath that always reads the bottom of the stack.
ParentPathIsRoot(stack) == IF stack # <<>> THEN stack[1] ELSE <<>>

\* parentStack[parentStack.length - 1] || ""
ParentPath(stack) == IF stack # <<>> THEN stack[Len(stack)] ELSE <<>>

\* Variant of PushDir that pushes the bare name instead of the full path.
PushDirName(stack, name, fullPath) ==
    IF EndsWith(name, SLASH) THEN Append(stack, name) ELSE stack

\* if (name.endsWith("/")) parentStack.push(fullPath)
PushDir(stack, name, fullPath) ==
    IF EndsWith(name, SLASH) THEN Append(stack, fullPath) ELSE stack

\* Variant of SaveComment that keeps the first comment stored under a path.
SaveCommentFirst(map, fullPath, comment) ==
    IF comment # <<>> /\ fullPath \notin DOMAIN map
    THEN Put(map, fullPath, comment)
    ELSE map

\* if (comment) comments[fullPath] = comment
SaveComment(map, fullPath, comment) ==
    IF comment # <<>> THEN Put(map, fullPath, comment) ELSE map

\* Variant of InitialStack that leaves an empty root name out.
InitialStackIfNamed(rootName) ==
    IF rootName # <<>> THEN <<rootName>> ELSE <<>>

\* const parentStack = [rootName]
InitialStack(rootName) == <<rootName>>

\* Variant of FullPath that forgets the parent.
FullPathIsName(parentPath, name) == name

\* const fullPath = parentPath + name
FullPath(parentPath, name) == parentPath \o name

\* Variant of NewPaths in which the list outlives the call: a binding of
\* the module, not of the function.
KeptPaths(old) == old

\* const paths = []: a new list in every call, whatever an earlier call left.
NewPaths(old) == <<>>

\* The head of parseTreeStructure: split, filter, early return, root line,
\* initial stack.  With no line left and no early return the code would call
\* extractNameAndComment(undefined), whose line.split throws a TypeError.
ParseStart ==
    /\ pc = "start"
    /\ LET ls == SplitLines(content) IN
       /\ lines' = ls
       /\ IF NoLines(ls)
          THEN /\ paths' = <<>>
               /\ comments' = EmptyMap
               /\ pc' = "done"
               /\ UNCHANGED <<i, parentStack>>
          ELSE IF ls = <<>>
          THEN /\ pc' = "error"
               /\ UNCHANGED <<i, paths, comments, parentStack>>
          ELSE LET root == extractNameAndComment(ls[1]) IN
               /\ paths' = NewPaths(paths) \o RootPaths(root.name)
               /\ comments' = RootComments(root.name, root.comment)
               /\ parentStack' = InitialStack(root.name)
               /\ i' = 2
               /\ pc' = "loop"
    /\ UNCHANGED <<content, level>>
    /\ UNCHANGED lineVars
    /\ UNCHANGED classVars
    /\ UNCHANGED <<callVars, histVars, cliVars, runVars>>

\* Variant of SkipLine with the test left out: no line is skipped.
SkipLineNever(name) == FALSE

\* if (!name) continue
SkipLine(name) == name = <<>>

\* One iteration of the loop over lines[1..].
ParseLine ==
    /\ pc = "loop"
    /\ i <= Len(lines)
    /\ LET l == lines[i]
           lvl == calculateIndentationLevel(l)
           e == extractNameAndComment(l)
           stack == PopTo(parentStack, lvl)
           fullPath == FullPath(ParentPath(stack), e.name)
       IN
       IF ~NonBlank(l)
       THEN UNCHANGED <<paths, comments, parentStack, level>>
       ELSE IF SkipLine(e.name)
       THEN /\ level' = lvl
            /\ UNCHANGED <<paths, comments, parentStack>>
       ELSE /\ level' = lvl
            /\ paths' = Append(paths, fullPath)
            /\ parentStack' = PushDir(stack, e.name, fullPath)
            /\ comments' = SaveComment(comments, fullPath, e.comment)
    /\ i' = i + 1
    /\ UNCHANGED <<content, lines, pc>>
    /\ UNCHANGED lineVars
    /\ UNCHANGED classVars
    /\ UNCHANGED <<callVars, histVars, cliVars, runVars>>

\* The loop ends: return { paths, comments }.
ParseReturn ==
    /\ pc = "loop"
    /\ i > Len(lines)
    /\ pc' = "done"
    /\ UNCHANGED <<content, lines, i, paths, comments, parentStack, level>>
    /\ UNCHANGED lineVars
    /\ UNCHANGED classVars
    /\ UNCHANGED <<callVars, histVars, cliVars, runVars>>

----------------------------------------------------------------------------
(* The two line functions applied to one line *)

Extract ==
    /\ lpc = "ready"
    /\ result' = extractNameAndComment(line)
    /\ lpc' = "extracted"
    /\ UNCHANGED <<line, indent>>
    /\ UNCHANGED parseVars
    /\ UNCHANGED classVars
    /\ UNCHANGED <<callVars, histVars, cliVars, runVars>>

Measure ==
    /\ lpc = "extracted"
    /\ indent' = calculateIndentationLevel(line)
    /\ lpc' = "measured"
    /\ UNCHANGED <<line, result>>
    /\ UNCHANGED parseVars
    /\ UNCHANGED classVars
    /\ UNCHANGED <<callVars, histVars, cliVars, runVars>>

----------------------------------------------------------------------------
(* separateDirectoriesAndFiles *)

\* path.dirname of the Node runtime (posix): the path up to the last '/'
\* that has a character other than '/' somewhere after it; "." (or "/" for
\* a path that begins with '/') when there is no such '/'.
dirname(p) ==
    IF p = <<>> THEN <<DOT>>
    ELSE LET hasRoot == p[1] = SLASH
             cuts == {j \in 2..Len(p) :
                         /\ p[j] = SLASH
                         /\ \E m \in (j + 1)..Len(p) : p[m] # SLASH}
         IN IF cuts = {} THEN (IF hasRoot THEN <<SLASH>> ELSE <<DOT>>)
            ELSE LET cut == CHOOSE j \in cuts : \A m \in cuts : m <= j
                 IN IF hasRoot /\ cut = 2
                    THEN <<SLASH, SLASH>>
                    ELSE SubSeq(p, 1, cut - 1)

\* Variant of IsDirectoryPath that takes any path holding a '/' as a directory.
IsDirectoryPathAnySlash(filePath) ==
    \E j \in 1..Len(filePath) : filePath[j] = SLASH

\* filePath.endsWith("/")
IsDirectoryPath(filePath) == EndsWith(filePath, SLASH)

\* Variant of WalkContinues that never enters the loop: no parent is added.
WalkContinuesNever(dir) == FALSE

\* while (currentDir && currentDir !== ".")
WalkContinues(dir) == dir # <<>> /\ dir # <<DOT>>

\* Set.prototype.add on a Set kept as the sequence of its members in
\* insertion order.
SetAdd(set, member) ==
    IF \E j \in 1..Len(set) : set[j] = member THEN set ELSE Append(set, member)

\* (a.match(/\//g) || []).length
SlashCount(p) == Cardinality({j \in 1..Len(p) : p[j] = SLASH})

\* Variant of SortByDepth that leaves the directories in insertion order.
SortByDepthOmitted(dirs) == dirs

\* Array.from(directories).sort((a, b) => aDepth - bDepth): the sort of the
\* runtime is stable, so the result is the directories of depth d in their
\* order of insertion, for d = 0, 1, 2, ...
RECURSIVE SortFromDepth(_, _)
SortFromDepth(dirs, d) ==
    IF dirs = <<>> THEN <<>>
    ELSE LET At(x) == SlashCount(x) = d
             Deeper(x) == SlashCount(x) # d
         IN SelectSeq(dirs, At) \o SortFromDepth(SelectSeq(dirs, Deeper), d + 1)

SortByDepth(dirs) == SortFromDepth(dirs, 0)

NoClassification == [directories |-> <<>>, files |-> <<>>]

\* The state of separateDirectoriesAndFiles while it is not being called.
ClassIdle ==
    /\ pathNo = 1
    /\ directories = <<>>
    /\ files = <<>>
    /\ currentDir = <<>>
    /\ classified = NoClassification
    /\ cpc = "idle"

\* One iteration of for (const filePath of paths), up to the while loop.
ClassifyPath ==
    /\ cpc = "for"
    /\ pathNo <= Len(paths)
    /\ LET filePath == paths[pathNo]
       IN IF IsDirectoryPath(filePath)
          THEN /\ directories' = SetAdd(directories, filePath)
               /\ pathNo' = pathNo + 1
               /\ UNCHANGED <<files, currentDir, cpc>>
          ELSE /\ files' = Append(files, filePath)
               /\ currentDir' = dirname(filePath)
               /\ cpc' = "while"
               /\ UNCHANGED <<directories, pathNo>>
    /\ UNCHANGED classified
    /\ UNCHANGED parseVars
    /\ UNCHANGED lineVars
    /\ UNCHANGED <<callVars, histVars, cliVars, runVars>>

\* One test of the while loop over the parent directories of a file, and
\* its body when the test passes.
ClassifyWalk ==
    /\ cpc = "while"
    /\ IF WalkContinues(currentDir)
       THEN /\ directories' = SetAdd(directories, currentDir \o <<SLASH>>)
            /\ currentDir' = dirname(currentDir)
            /\ UNCHANGED <<pathNo, cpc>>
       ELSE /\ pathNo' = pathNo + 1
            /\ cpc' = "for"
            /\ UNCHANGED <<directories, currentDir>>
    /\ UNCHANGED <<files, classified>>
    /\ UNCHANGED parseVars
    /\ UNCHANGED lineVars
    /\ UNCHANGED <<callVars, histVars, cliVars, runVars>>

\* After the for loop: sort the directories by depth and return.
ClassifyReturn ==
    /\ cpc = "for"
    /\ pathNo > Len(paths)
    /\ classified' = [directories |-> SortByDepth(directories), files |-> files]
    /\ cpc' = "done"
    /\ UNCHANGED <<pathNo, directories, files, currentDir>>
    /\ UNCHANGED parseVars
    /\ UNCHANGED lineVars
    /\ UNCHANGED <<callVars, histVars, cliVars, runVars>>

----------------------------------------------------------------------------
(* Calls of parseTreeStructure and separateDirectoriesAndFiles in a row *)

\* Bound on the number of calls whose results are kept.
MaxCalls == 3

\* parseTreeStructure has returned: separateDirectoriesAndFiles is called on
\* its paths, with a new Set and a new list.
CallClassify ==
    /\ pc = "done"
    /\ cpc = "idle"
    /\ pathNo' = 1
    /\ directories' = <<>>
    /\ files' = <<>>
    /\ cpc' = "for"
    /\ UNCHANGED <<currentDir, classified>>
    /\ UNCHANGED <<parseVars, lineVars, callVars, runVars, histVars, cliVars>>

\* Both functions have returned: their results are kept, and
\* parseTreeStructure is called on a text again.  What the locals of the
\* returned calls held is of no account: each call assigns its own before
\* it reads them.
CallAgain(text) ==
    /\ pc = "done"
    /\ cpc = "done"
    /\ Len(calls) < MaxCalls
    /\ calls' = Append(calls, [ text |-> content,
                                paths |-> paths,
                                comments |-> comments,
                                classified |-> classified ])
    /\ content' = text
    /\ pc' = "start"
    /\ cpc' = "idle"
    /\ UNCHANGED <<lines, i, paths, comments, parentStack, level>>
    /\ UNCHANGED <<pathNo, directories, files, currentDir, classified>>
    /\ UNCHANGED <<lineVars, callVars, runVars, cliVars>>

----------------------------------------------------------------------------
(* confirmAction, parseDirectoryFromText, parseDirectoryStructure and main *)

\* String.prototype.toLowerCase on the letters an answer is typed with.
LowerCase(s) ==
    [j \in 1..Len(s) |->
        CASE s[j] = "Y" -> "y"
          [] s[j] = "E" -> "e"
          [] s[j] = "S" -> "s"
          [] s[j] = "N" -> "n"
          [] s[j] = "O" -> "o"
          [] OTHER -> s[j]]

\* Variant of Accepted that takes every answer as a yes.
AcceptedWhateverTheAnswer(a) == TRUE

\* confirmAction: the value the promise resolves with for answer a.
Accepted(a) ==
    \/ LowerCase(a) = <<"y">>
    \/ LowerCase(a) = <<"y", "e", "s">>
    \/ a = <<>>

\* path.normalize of the Node runtime (posix), on the segments of a path:
\* empty and "." segments are dropped, ".." removes the segment before it.
RECURSIVE NormalizeSegments(_, _, _)
NormalizeSegments(segs, res, allowAboveRoot) ==
    IF segs = <<>> THEN res
    ELSE LET seg == Head(segs)
             rest == Tail(segs)
         IN IF seg = <<>> \/ seg = <<DOT>>
            THEN NormalizeSegments(rest, res, allowAboveRoot)
            ELSE IF seg = <<DOT, DOT>>
            THEN IF res # <<>> /\ res[Len(res)] # <<DOT, DOT>>
                 THEN NormalizeSegments(rest, SubSeq(res, 1, Len(res) - 1),
                                        allowAboveRoot)
                 ELSE IF allowAboveRoot
                 THEN NormalizeSegments(rest, Append(res, seg), allowAboveRoot)
                 ELSE NormalizeSegments(rest, res, allowAboveRoot)
            ELSE NormalizeSegments(rest, Append(res, seg), allowAboveRoot)

RECURSIVE JoinSegments(_)
JoinSegments(segs) ==
    IF segs = <<>> THEN <<>>
    ELSE IF Len(segs) = 1 THEN segs[1]
    ELSE segs[1] \o <<SLASH>> \o JoinSegments(Tail(segs))

PathNormalize(p) ==
    IF p = <<>> THEN <<DOT>>
    ELSE LET isAbsolute == p[1] = SLASH
             trailingSeparator == p[Len(p)] = SLASH
             body == JoinSegments(
                         NormalizeSegments(Split(p, SLASH), <<>>, ~isAbsolute))
         IN IF body = <<>>
            THEN (IF isAbsolute THEN <<SLASH>>
                  ELSE IF trailingSeparator THEN <<DOT, SLASH>> ELSE <<DOT>>)
            ELSE (IF isAbsolute THEN <<SLASH>> ELSE <<>>)
                 \o body
                 \o (IF trailingSeparator THEN <<SLASH>> ELSE <<>>)

\* path.join(a, b): the non-empty arguments joined by '/', normalized.
PathJoin(a, b) ==
    IF a = <<>> /\ b = <<>> THEN <<DOT>>
    ELSE IF a = <<>> THEN PathNormalize(b)
    ELSE IF b = <<>> THEN PathNormalize(a)
    ELSE PathNormalize(a \o <<SLASH>> \o b)

\* A call on fileSystem: pending until its promise settles.
Call(op, arg) == [op |-> op, arg |-> arg, status |-> "pending"]

\* The calls so far, with the pending one (the last) settled.
Settled(status) == [ops EXCEPT ![Len(ops)].status = status]

\* The error a failed call rejects with.
ErrorOf(call) == [op |-> call.op, arg |-> call.arg]
NoError == [op |-> "none", arg |-> <<>>]

NoReturn == [resolved |-> FALSE, success |-> FALSE, error |-> NoError]

\* return { success: true } and return { success: false }
Result(success) == [resolved |-> TRUE, success |-> success, error |-> NoError]

\* Variant of FailureResult that drops the error.
FailureResultWithoutError(error) ==
    [resolved |-> TRUE, success |-> FALSE, error |-> NoError]

\* return { success: false, error }
FailureResult(error) ==
    [resolved |-> TRUE, success |-> FALSE, error |-> error]

\* Variant of DirsExhausted that leaves the directory loop after one turn.
DirsExhaustedAfterOne(no, dirs) == no > 1 \/ no > Len(dirs)

\* for (const dir of directories): no directory is left
DirsExhausted(no, dirs) == no > Len(dirs)

\* The messages of the logger (those with a fixed text; the listing of the
\* structure and the counts are left out).
MsgReading == "Reading structure from"
MsgAnalyzing == "Analyzing structure"
MsgNoStructure == "No valid structure found"
MsgSummary == "Summary of the structure to create:"
MsgCancelled == "Operation cancelled."
MsgCreating == "Creating structure..."
MsgDirCreated == "Directory created"
MsgFileCreated == "File created"
MsgSuccess == "Structure successfully created"
MsgError == "Error:"

\* null, as the value of an option: no text is equal to it.
NULL == <<"null">>

\* const options = { filePath: null, outputDir: ".", ... }
DefaultOptions ==
    [ filePath |-> NULL,
      outputDir |-> <<DOT>>,
      skipConfirmation |-> FALSE,
      showHelp |-> FALSE,
      directStructure |-> NULL ]

\* No call of the parser or the classifier has returned yet.
HistIdle == calls = <<>>

\* The state of parseArgs and of the head of main while they are not running.
CliIdle ==
    /\ argv = <<>>
    /\ options = DefaultOptions
    /\ helpShown = FALSE
    /\ apc = "idle"

\* The state of the materialization functions while none is being called.
RunIdle ==
    /\ mode = "text"
    /\ outputDir = <<DOT>>
    /\ skipConfirmation = FALSE
    /\ dryRun = FALSE
    /\ asked = FALSE
    /\ answer = <<>>
    /\ itemNo = 1
    /\ ops = <<>>
    /\ logs = <<>>
    /\ ret = NoReturn
    /\ exitCode = 0
    /\ mpc = "idle"

\* parseDirectoryStructure: issue the read of the structure file.
RunReadFile ==
    /\ mpc = "call"
    /\ mode = "file"
    /\ logs' = Append(logs, MsgReading)
    /\ ops' = Append(ops, Call("readFile", <<>>))
    /\ mpc' = "reading"
    /\ UNCHANGED <<asked, answer, itemNo, ret, exitCode>>
    /\ UNCHANGED <<parseVars, lineVars, classVars, callVars, histVars, cliVars>>

\* Variant of ReadResult that hands on an empty text whatever was read.
ReadResultEmpty(fileContent) == <<>>

\* const content = await fileSystem.readFile(filePath, "utf8"): the text
\* handed to parseTreeStructure is the content the read resolved with.
ReadResult(fileContent) == fileContent

\* parseDirectoryStructure: the read resolved with the content of the file;
\* parseTreeStructure is entered.
ReadResolved ==
    /\ mpc = "reading"
    /\ ops' = Settled("ok")
    /\ logs' = Append(logs, MsgAnalyzing)
    /\ content' = ReadResult(content)
    /\ pc' = "start"
    /\ mpc' = "parse"
    /\ UNCHANGED <<asked, answer, itemNo, ret, exitCode>>
    /\ UNCHANGED <<lines, i, paths, comments, parentStack, level>>
    /\ UNCHANGED <<lineVars, classVars, callVars, histVars, cliVars>>

\* parseDirectoryFromText: parseTreeStructure is entered on the text given.
RunAnalyze ==
    /\ mpc = "call"
    /\ mode = "text"
    /\ logs' = Append(logs, MsgAnalyzing)
    /\ pc' = "start"
    /\ mpc' = "parse"
    /\ UNCHANGED <<asked, answer, itemNo, ops, ret, exitCode>>
    /\ UNCHANGED <<content, lines, i, paths, comments, parentStack, level>>
    /\ UNCHANGED <<lineVars, classVars, callVars, histVars, cliVars>>

\* parseTreeStructure has returned: separateDirectoriesAndFiles is entered.
RunClassify ==
    /\ mpc = "parse"
    /\ pc = "done"
    /\ cpc' = "for"
    /\ mpc' = "classify"
    /\ UNCHANGED <<pathNo, directories, files, currentDir, classified>>
    /\ UNCHANGED <<asked, answer, itemNo, ops, logs, ret, exitCode>>
    /\ UNCHANGED <<parseVars, lineVars, callVars, histVars, cliVars>>

\* Variant of IsEmptyStructure with the check left out.
IsEmptyStructureNever(dirs, fs) == FALSE

\* if (directories.length === 0 && files.length === 0)
IsEmptyStructure(dirs, fs) == Len(dirs) = 0 /\ Len(fs) = 0

\* The check for an empty structure, the summary, and the choice between
\* asking and going ahead.  When it asks, confirmAction puts its question
\* (rl.question) in the same run; the function then waits for the answer.
RunCheck ==
    /\ mpc = "classify"
    /\ cpc = "done"
    /\ IF IsEmptyStructure(classified.directories, classified.files)
       THEN /\ logs' = Append(logs, MsgNoStructure)
            /\ ret' = Result(FALSE)
            /\ mpc' = "returned"
            /\ UNCHANGED asked
       ELSE IF skipConfirmation
       THEN /\ logs' = logs \o <<MsgSummary, MsgCreating>>
            /\ mpc' = "dirs"
            /\ UNCHANGED <<asked, ret>>
       ELSE /\ logs' = Append(logs, MsgSummary)
            /\ asked' = TRUE
            /\ mpc' = "confirm"
            /\ UNCHANGED ret
    /\ UNCHANGED <<answer, itemNo, ops, exitCode>>
    /\ UNCHANGED <<parseVars, lineVars, classVars, callVars, histVars, cliVars>>

\* confirmAction: the answer to the pending question arrives; the
\* interface is closed, the promise resolves, and the function cancels or
\* goes ahead.
RunConfirm(a) ==
    /\ mpc = "confirm"
    /\ answer' = a
    /\ IF Accepted(a)
       THEN /\ logs' = Append(logs, MsgCreating)
            /\ mpc' = "dirs"
            /\ UNCHANGED ret
       ELSE /\ logs' = Append(logs, MsgCancelled)
            /\ ret' = Result(FALSE)
            /\ mpc' = "returned"
    /\ UNCHANGED <<asked, itemNo, ops, exitCode>>
    /\ UNCHANGED <<parseVars, lineVars, classVars, callVars, histVars, cliVars>>

\* Directory loop: issue mkdir for the next directory.
RunMkdir ==
    /\ mpc = "dirs"
    /\ ~DirsExhausted(itemNo, classified.directories)
    /\ ops' = Append(ops, Call("mkdir",
                  PathJoin(outputDir, classified.directories[itemNo])))
    /\ mpc' = "mkdir"
    /\ UNCHANGED <<asked, answer, itemNo, logs, ret, exitCode>>
    /\ UNCHANGED <<parseVars, lineVars, classVars, callVars, histVars, cliVars>>

\* Directory loop: the mkdir resolved.
MkdirResolved ==
    /\ mpc = "mkdir"
    /\ ops' = Settled("ok")
    /\ logs' = Append(logs, MsgDirCreated)
    /\ itemNo' = itemNo + 1
    /\ mpc' = "dirs"
    /\ UNCHANGED <<asked, answer, ret, exitCode>>
    /\ UNCHANGED <<parseVars, lineVars, classVars, callVars, histVars, cliVars>>

\* Directory loop left: the file loop is entered.
RunDirsDone ==
    /\ mpc = "dirs"
    /\ DirsExhausted(itemNo, classified.directories)
    /\ itemNo' = 1
    /\ mpc' = "files"
    /\ UNCHANGED <<asked, answer, ops, logs, ret, exitCode>>
    /\ UNCHANGED <<parseVars, lineVars, classVars, callVars, histVars, cliVars>>

\* File loop: issue mkdir for the parent directory of the next file.
RunEnsureParent ==
    /\ mpc = "files"
    /\ itemNo <= Len(classified.files)
    /\ ops' = Append(ops, Call("mkdir",
                  dirname(PathJoin(outputDir, classified.files[itemNo]))))
    /\ mpc' = "ensure"
    /\ UNCHANGED <<asked, answer, itemNo, logs, ret, exitCode>>
    /\ UNCHANGED <<parseVars, lineVars, classVars, callVars, histVars, cliVars>>

\* File loop: the mkdir of the parent resolved; issue writeFile.
RunWriteFile ==
    /\ mpc = "ensure"
    /\ ops' = Append(Settled("ok"), Call("writeFile",
                  PathJoin(outputDir, classified.files[itemNo])))
    /\ mpc' = "write"
    /\ UNCHANGED <<asked, answer, itemNo, logs, ret, exitCode>>
    /\ UNCHANGED <<parseVars, lineVars, classVars, callVars, histVars, cliVars>>

\* File loop: the writeFile resolved.
WriteResolved ==
    /\ mpc = "write"
    /\ ops' = Settled("ok")
    /\ logs' = Append(logs, MsgFileCreated)
    /\ itemNo' = itemNo + 1
    /\ mpc' = "files"
    /\ UNCHANGED <<asked, answer, ret, exitCode>>
    /\ UNCHANGED <<parseVars, lineVars, classVars, callVars, histVars, cliVars>>

\* File loop left: return { success: true }.
RunFilesDone ==
    /\ mpc = "files"
    /\ itemNo > Len(classified.files)
    /\ logs' = Append(logs, MsgSuccess)
    /\ ret' = Result(TRUE)
    /\ mpc' = "returned"
    /\ UNCHANGED <<asked, answer, itemNo, ops, exitCode>>
    /\ UNCHANGED <<parseVars, lineVars, classVars, callVars, histVars, cliVars>>

\* A pending call on fileSystem rejects: the catch clause logs the error
\* and returns it.
FsRejected ==
    /\ mpc \in {"reading", "mkdir", "ensure", "write"}
    /\ ops' = Settled("failed")
    /\ logs' = Append(logs, MsgError)
    /\ ret' = FailureResult(ErrorOf(ops[Len(ops)]))
    /\ mpc' = "returned"
    /\ UNCHANGED <<asked, answer, itemNo, exitCode>>
    /\ UNCHANGED <<parseVars, lineVars, classVars, callVars, histVars, cliVars>>

----------------------------------------------------------------------------
(* The body of parseDirectoryStructure after the read, lines 194-262, written
   out statement by statement from its own text. *)

\* parseTreeStructure(content) has returned: separateDirectoriesAndFiles is
\* entered.
FileClassify ==
    /\ mode = "file"
    /\ mpc = "parse"
    /\ pc = "done"
    /\ cpc' = "for"
    /\ mpc' = "classify"
    /\ UNCHANGED <<pathNo, directories, files, currentDir, classified>>
    /\ UNCHANGED <<asked, answer, itemNo, ops, logs, ret, exitCode>>
    /\ UNCHANGED <<parseVars, lineVars, callVars, histVars, cliVars>>

\* if (directories.length === 0 && files.length === 0) return
\* { success: false }; otherwise the summary, shouldProceed =
\* options.skipConfirmation and, when that is false, the question of
\* confirmAction.
FileCheck ==
    /\ mode = "file"
    /\ mpc = "classify"
    /\ cpc = "done"
    /\ IF Len(classified.directories) = 0 /\ Len(classified.files) = 0
       THEN /\ logs' = Append(logs, MsgNoStructure)
            /\ ret' = Result(FALSE)
            /\ mpc' = "returned"
            /\ UNCHANGED asked
       ELSE IF skipConfirmation
       THEN /\ logs' = logs \o <<MsgSummary, MsgCreating>>
            /\ mpc' = "dirs"
            /\ UNCHANGED <<asked, ret>>
       ELSE /\ logs' = Append(logs, MsgSummary)
            /\ asked' = TRUE
            /\ mpc' = "confirm"
            /\ UNCHANGED ret
    /\ UNCHANGED <<answer, itemNo, ops, exitCode>>
    /\ UNCHANGED <<parseVars, lineVars, classVars, callVars, histVars, cliVars>>

\* The answer to the pending question arrives: if (!shouldProceed) return
\* { success: false }, otherwise the creation starts.
FileConfirm(a) ==
    /\ mode = "file"
    /\ mpc = "confirm"
    /\ answer' = a
    /\ IF Accepted(a)
       THEN /\ logs' = Append(logs, MsgCreating)
            /\ mpc' = "dirs"
            /\ UNCHANGED ret
       ELSE /\ logs' = Append(logs, MsgCancelled)
            /\ ret' = Result(FALSE)
            /\ mpc' = "returned"
    /\ UNCHANGED <<asked, itemNo, ops, exitCode>>
    /\ UNCHANGED <<parseVars, lineVars, classVars, callVars, histVars, cliVars>>

\* Variant of FileMkdir that creates the directory as it is named in the
\* structure, not under outputDir.
FileMkdirOutsideOutputDir ==
    /\ mode = "file"
    /\ mpc = "dirs"
    /\ itemNo <= Len(classified.directories)
    /\ ops' = Append(ops, Call("mkdir", classified.directories[itemNo]))
    /\ mpc' = "mkdir"
    /\ UNCHANGED <<asked, answer, itemNo, logs, ret, exitCode>>
    /\ UNCHANGED <<parseVars, lineVars, classVars, callVars, histVars, cliVars>>

\* for (const dir of directories): dirPath = path.join(outputDir, dir);
\* fileSystem.mkdir(dirPath, { recursive: true }) is issued.
FileMkdir ==
    /\ mode = "file"
    /\ mpc = "dirs"
    /\ itemNo <= Len(classified.directories)
    /\ ops' = Append(ops, Call("mkdir",
                  PathJoin(outputDir, classified.directories[itemNo])))
    /\ mpc' = "mkdir"
    /\ UNCHANGED <<asked, answer, itemNo, logs, ret, exitCode>>
    /\ UNCHANGED <<parseVars, lineVars, classVars, callVars, histVars, cliVars>>

\* The mkdir of the directory resolved: it is logged and the loop goes on.
FileMkdirResolved ==
    /\ mode = "file"
    /\ mpc = "mkdir"
    /\ ops' = Settled("ok")
    /\ logs' = Append(logs, MsgDirCreated)
    /\ itemNo' = itemNo + 1
    /\ mpc' = "dirs"
    /\ UNCHANGED <<asked, answer, ret, exitCode>>
    /\ UNCHANGED <<parseVars, lineVars, classVars, callVars, histVars, cliVars>>

\* No directory is left: for (const file of files) is entered.
FileDirsDone ==
    /\ mode = "file"
    /\ mpc = "dirs"
    /\ itemNo > Len(classified.directories)
    /\ itemNo' = 1
    /\ mpc' = "files"
    /\ UNCHANGED <<asked, answer, ops, logs, ret, exitCode>>
    /\ UNCHANGED <<parseVars, lineVars, classVars, callVars, histVars, cliVars>>

\* filePath = path.join(outputDir, file); parentDir = path.dirname(filePath);
\* fileSystem.mkdir(parentDir, { recursive: true }) is issued.
FileEnsureParent ==
    /\ mode = "file"
    /\ mpc = "files"
    /\ itemNo <= Len(classified.files)
    /\ ops' = Append(ops, Call("mkdir",
                  dirname(PathJoin(outputDir, classified.files[itemNo]))))
    /\ mpc' = "ensure"
    /\ UNCHANGED <<asked, answer, itemNo, logs, ret, exitCode>>
    /\ UNCHANGED <<parseVars, lineVars, classVars, callVars, histVars, cliVars>>

\* The mkdir of the parent resolved: fileSystem.writeFile(filePath, "") is
\* issued.
FileWriteFile ==
    /\ mode = "file"
    /\ mpc = "ensure"
    /\ ops' = Append(Settled("ok"), Call("writeFile",
                  PathJoin(outputDir, classified.files[itemNo])))
    /\ mpc' = "write"
    /\ UNCHANGED <<asked, answer, itemNo, logs, ret, exitCode>>
    /\ UNCHANGED <<parseVars, lineVars, classVars, callVars, histVars, cliVars>>

\* The writeFile resolved: it is logged and the loop goes on.
FileWriteResolved ==
    /\ mode = "file"
    /\ mpc = "write"
    /\ ops' = Settled("ok")
    /\ logs' = Append(logs, MsgFileCreated)
    /\ itemNo' = itemNo + 1
    /\ mpc' = "files"
    /\ UNCHANGED <<asked, answer, ret, exitCode>>
    /\ UNCHANGED <<parseVars, lineVars, classVars, callVars, histVars, cliVars>>

\* No file is left: return { success: true }.
FileFilesDone ==
    /\ mode = "file"
    /\ mpc = "files"
    /\ itemNo > Len(classified.files)
    /\ logs' = Append(logs, MsgSuccess)
    /\ ret' = Result(TRUE)
    /\ mpc' = "returned"
    /\ UNCHANGED <<asked, answer, itemNo, ops, exitCode>>
    /\ UNCHANGED <<parseVars, lineVars, classVars, callVars, histVars, cliVars>>

\* catch (error): the pending readFile, mkdir or writeFile rejects; the
\* error is logged and return { success: false, error }.
FileRejected ==
    /\ mode = "file"
    /\ mpc \in {"reading", "mkdir", "ensure", "write"}
    /\ ops' = Settled("failed")
    /\ logs' = Append(logs, MsgError)
    /\ ret' = FailureResult(ErrorOf(ops[Len(ops)]))
    /\ mpc' = "returned"
    /\ UNCHANGED <<asked, answer, itemNo, exitCode>>
    /\ UNCHANGED <<parseVars, lineVars, classVars, callVars, histVars, cliVars>>

----------------------------------------------------------------------------
(* main *)

\* main: exitCode: result.success ? 0 : 1
ExitCodeOf(r) == IF r.success THEN 0 ELSE 1

\* main: the called function has resolved; main returns the exit code.
RunExit ==
    /\ mpc = "returned"
    /\ exitCode' = ExitCodeOf(ret)
    /\ mpc' = "exited"
    /\ UNCHANGED <<asked, answer, itemNo, ops, logs, ret>>
    /\ UNCHANGED <<parseVars, lineVars, classVars, callVars, histVars, cliVars>>

----------------------------------------------------------------------------
(* parseArgs and the head of main *)

\* What JavaScript takes as true of an option value: neither null nor "".
Truthy(v) == v # NULL /\ v # <<>>

\* main: parsedOptions.showHelp ||
\*       (!parsedOptions.filePath && !parsedOptions.directStructure)
ShowsHelp(opts) ==
    opts.showHelp \/ (~Truthy(opts.filePath) /\ ~Truthy(opts.directStructure))

\* Variant of UsesDirectStructure that prefers the structure file.
UsesDirectStructureUnlessFile(opts) ==
    Truthy(opts.directStructure) /\ ~Truthy(opts.filePath)

\* main: if (parsedOptions.directStructure)
UsesDirectStructure(opts) == Truthy(opts.directStructure)

\* main: help asked for, or nothing to work on: show the help and return.
MainHelp ==
    /\ apc = "main"
    /\ ShowsHelp(options)
    /\ helpShown' = TRUE
    /\ exitCode' = IF options.showHelp THEN 0 ELSE 1
    /\ mpc' = "exited"
    /\ apc' = "left"
    /\ UNCHANGED <<asked, answer, itemNo, ops, logs, ret>>
    /\ UNCHANGED <<argv, options>>
    /\ UNCHANGED <<parseVars, lineVars, classVars, callVars, histVars>>

\* main: call parseDirectoryFromText on the direct structure, or
\* parseDirectoryStructure on the structure file, which holds fileContent.
\* Of the options only skipConfirmation is handed on.
MainCall(fileContent) ==
    /\ apc = "main"
    /\ ~ShowsHelp(options)
    /\ IF UsesDirectStructure(options)
       THEN /\ mode' = "text"
            /\ content' = options.directStructure
       ELSE /\ mode' = "file"
            /\ content' = fileContent
    /\ outputDir' = options.outputDir
    /\ skipConfirmation' = options.skipConfirmation
    /\ dryRun' = FALSE
    /\ mpc' = "call"
    /\ apc' = "left"
    /\ UNCHANGED <<asked, answer, itemNo, ops, logs, ret, exitCode>>
    /\ UNCHANGED <<argv, options, helpShown>>
    /\ UNCHANGED <<lines, i, paths, comments, parentStack, level, pc>>
    /\ UNCHANGED <<lineVars, classVars, histVars>>

\* The option flags, as the argument list holds them.
FlagHelp == {<<"-", "h">>, <<"-", "-", "h", "e", "l", "p">>}
FlagYes == {<<"-", "y">>, <<"-", "-", "y", "e", "s">>}
FlagOutput == {<<"-", "o">>, <<"-", "-", "o", "u", "t", "p", "u", "t">>}
FlagStructure ==
    {<<"-", "s">>, <<"-", "-", "s", "t", "r", "u", "c", "t", "u", "r", "e">>}

\* cliArgs[++i] || fallback: the argument after position k, or the fallback
\* when there is none or it is empty.
ValueAfter(args, k, fallback) ==
    IF k + 1 <= Len(args) /\ args[k + 1] # <<>> THEN args[k + 1] ELSE fallback

\* The for loop of parseArgs from position k on, with the options so far.
RECURSIVE ParseArgsFrom(_, _, _)
ParseArgsFrom(args, k, opts) ==
    IF k > Len(args) THEN opts
    ELSE LET arg == args[k] IN
         IF arg \in FlagHelp
         THEN ParseArgsFrom(args, k + 1, [opts EXCEPT !.showHelp = TRUE])
         ELSE IF arg \in FlagYes
         THEN ParseArgsFrom(args, k + 1,
                            [opts EXCEPT !.skipConfirmation = TRUE])
         ELSE IF arg \in FlagOutput
         THEN ParseArgsFrom(args, k + 2,
                  [opts EXCEPT !.outputDir = ValueAfter(args, k, <<DOT>>)])
         ELSE IF arg \in FlagStructure
         THEN ParseArgsFrom(args, k + 2,
                  [opts EXCEPT !.directStructure = ValueAfter(args, k, NULL)])
         ELSE IF ~Truthy(opts.filePath) /\ ~Truthy(opts.directStructure)
         THEN ParseArgsFrom(args, k + 1, [opts EXCEPT !.filePath = arg])
         ELSE ParseArgsFrom(args, k + 1, opts)

parseArgs(args) == ParseArgsFrom(args, 1, DefaultOptions)

\* parseArgs called on the argument list.
ParseArgs ==
    /\ apc = "args"
    /\ options' = parseArgs(argv)
    /\ apc' = "parsed"
    /\ UNCHANGED <<argv, helpShown>>
    /\ UNCHANGED <<parseVars, lineVars, classVars, callVars, runVars, histVars>>

----------------------------------------------------------------------------
(* Inputs *)

\* Most lines of an input text.
MaxLines == 4

\* Most tokens of a line handed to the line functions alone.
MaxTokens == 5

BRANCH == <<TEE, DASH, DASH, SP>>
LAST == <<ELL, DASH, DASH, SP>>
BAR == <<VBAR, SP, SP, SP>>
GAP == <<SP, SP, SP, SP>>
NOTE == <<SP, HASH, SP>>

\* The lines the input texts are made of: a root with a comment, a last-child
\* directory and a commented file at level 0, a directory at level 1, a file
\* at level 2, a child drawn with blank indentation under a last-child
\* directory, the same file with another comment that holds a vertical bar,
\* two lines of glyphs only, a whitespace-only line and a line with no glyph
\* at all.
LineCatalogue ==
    { <<"p", SLASH>> \o NOTE \o <<"r">>,
      LAST \o <<"a", SLASH>>,
      BRANCH \o <<"g">> \o NOTE \o <<"d">>,
      BAR \o BRANCH \o <<"b", SLASH>>,
      BAR \o BAR \o LAST \o <<"f">>,
      GAP \o LAST \o <<"f">>,
      BRANCH \o <<"g">> \o NOTE \o <<VBAR, "c">>,
      <<VBAR>>,
      <<TEE, DASH, DASH>>,
      <<SP, SP>>,
      <<"x">> }

RECURSIVE Texts(_)
\* The sequences of at most n catalogue lines.
Texts(n) ==
    IF n = 0 THEN {<<>>}
    ELSE LET shorter == Texts(n - 1) IN
         shorter \cup {Append(t, l) : t \in shorter, l \in LineCatalogue}

RECURSIVE Join(_)
\* The lines of ls joined by line feeds.
Join(ls) ==
    IF ls = <<>> THEN <<>>
    ELSE IF Len(ls) = 1 THEN ls[1]
    ELSE ls[1] \o <<NL>> \o Join(Tail(ls))

\* The names of the seven-line project example of the test suite.
Project == <<"p", "r", "o", "j", "e", "c", "t", SLASH>>
Src == <<"s", "r", "c", SLASH>>
Components == <<"c", "o", "m", "p", "o", "n", "e", "n", "t", "s", SLASH>>
ButtonJs == <<"b", "u", "t", "t", "o", "n", ".", "j", "s">>
InputJs == <<"i", "n", "p", "u", "t", ".", "j", "s">>
IndexJs == <<"i", "n", "d", "e", "x", ".", "j", "s">>
PackageJson == <<"p", "a", "c", "k", "a", "g", "e", ".", "j", "s", "o", "n">>

\* The seven-line project example of the test suite, with its two comments.
ExampleLines ==
    << Project,
       BRANCH \o Src,
       BAR \o BRANCH \o Components,
       BAR \o BAR \o BRANCH \o ButtonJs \o NOTE \o <<"b", "c">>,
       BAR \o BAR \o LAST \o InputJs,
       BAR \o LAST \o IndexJs,
       LAST \o PackageJson \o NOTE \o <<"p", "d">> >>

Contents == {Join(t) : t \in Texts(MaxLines)} \cup {Join(ExampleLines)}

\* The tokens single lines are made of.
Tokens ==
    { <<SP>>, <<VBAR>>, <<TEE, DASH, DASH>>, <<ELL, DASH, DASH>>, <<TEE>>,
      <<HASH>>, <<"a">> }

RECURSIVE TokenLines(_)
\* The concatenations of at most n tokens.
TokenLines(n) ==
    IF n = 0 THEN {<<>>}
    ELSE LET shorter == TokenLines(n - 1) IN
         shorter \cup {l \o t : l \in shorter, t \in Tokens}

\* Bound on the number of paths handed to separateDirectoriesAndFiles.
MaxPaths == 3

\* The paths the lists are made of: two directories, files in them, a file
\* whose directories are not listed, a file with no directory, a file path
\* with an empty component, one that begins with "./" and one that begins
\* with '/'.
PathCatalogue ==
    { <<"p", "/">>,
      <<"p", "/", "a", "/">>,
      <<"p", "/", "f">>,
      <<"p", "/", "a", "/", "f">>,
      <<"c", "/", "d", "/", "f">>,
      <<"x">>,
      <<"a", "/", "/", "f">>,
      <<DOT, "/", "f">>,
      <<"/", "f">> }

\* All lists of at most n catalogue paths.
RECURSIVE PathLists(_)
PathLists(n) ==
    IF n = 0 THEN {<<>>}
    ELSE LET shorter == PathLists(n - 1)
         IN shorter \cup {Append(l, q) : l \in shorter, q \in PathCatalogue}

\* The paths parseTreeStructure gives for the project example.
ExamplePaths ==
    << Project,
       Project \o Src,
       Project \o Src \o Components,
       Project \o Src \o Components \o ButtonJs,
       Project \o Src \o Components \o InputJs,
       Project \o Src \o IndexJs,
       Project \o PackageJson >>

\* The texts given to the materialization functions: an empty text, a line
\* of glyphs only, a lone file, a root with a file and a directory, and the
\* project example (three directories and four files).
RunContents ==
    { <<>>,
      <<TEE, DASH, DASH>>,
      <<"x">>,
      Join(<< <<"p", "/">> \o NOTE \o <<"r">>,
              BRANCH \o <<"g">> \o NOTE \o <<"d">>,
              LAST \o <<"a", "/">> >>),
      Join(ExampleLines) }

\* The texts of calls made in a row: an empty text, a lone file, a small
\* tree with comments, and the same tree with a blank line in it.
RepeatContents ==
    { <<>>,
      <<"x">>,
      Join(<< <<"p", "/">> \o NOTE \o <<"r">>,
              LAST \o <<"a", "/">>,
              BAR \o LAST \o <<"f">> \o NOTE \o <<"d">> >>),
      Join(<< <<"p", "/">> \o NOTE \o <<"r">>,
              <<SP>>,
              LAST \o <<"a", "/">>,
              BAR \o LAST \o <<"f">> \o NOTE \o <<"d">> >>) }

\* The output directories: the default and a named one.
OutputDirs == {<<DOT>>, <<"o">>}

\* The answers typed at the prompt.
Answers ==
    { <<>>, <<"y">>, <<"Y">>, <<"y", "e", "s">>, <<"Y", "e", "S">>,
      <<"Y", "E", "S">>, <<"n">>, <<"N", "O">>, <<"y", "e">>, <<SP, "y">> }

----------------------------------------------------------------------------
(* Specifications *)

NoResult == [name |-> <<>>, comment |-> <<>>]

\* parseTreeStructure called on one input text.
Init ==
    /\ content \in Contents
    /\ lines = <<>>
    /\ i = 1
    /\ paths = <<>>
    /\ comments = EmptyMap
    /\ parentStack = <<>>
    /\ level = 0
    /\ pc = "start"
    /\ line = <<>>
    /\ result = NoResult
    /\ indent = 0
    /\ lpc = "idle"
    /\ ClassIdle
    /\ RunIdle
    /\ HistIdle
    /\ CliIdle

Next == ParseStart \/ ParseLine \/ ParseReturn

Spec == Init /\ [][Next]_vars

\* extractNameAndComment and calculateIndentationLevel called on one line.
LineInit ==
    /\ line \in TokenLines(MaxTokens)
    /\ result = NoResult
    /\ indent = 0
    /\ lpc = "ready"
    /\ content = <<>>
    /\ lines = <<>>
    /\ i = 1
    /\ paths = <<>>
    /\ comments = EmptyMap
    /\ parentStack = <<>>
    /\ level = 0
    /\ pc = "idle"
    /\ ClassIdle
    /\ RunIdle
    /\ HistIdle
    /\ CliIdle

LineNext == Extract \/ Measure

LineSpec == LineInit /\ [][LineNext]_vars

\* Either call: the parser on a text, or the line functions on a line.
AnyInit == Init \/ LineInit

AnyNext == Next \/ LineNext

AnySpec == AnyInit /\ [][AnyNext]_vars

\* separateDirectoriesAndFiles called on one list of paths.
ClassifyInit ==
    /\ paths \in PathLists(MaxPaths) \cup {ExamplePaths}
    /\ pathNo = 1
    /\ directories = <<>>
    /\ files = <<>>
    /\ currentDir = <<>>
    /\ classified = NoClassification
    /\ cpc = "for"
    /\ content = <<>>
    /\ lines = <<>>
    /\ i = 1
    /\ comments = EmptyMap
    /\ parentStack = <<>>
    /\ level = 0
    /\ pc = "idle"
    /\ line = <<>>
    /\ result = NoResult
    /\ indent = 0
    /\ lpc = "idle"
    /\ RunIdle
    /\ HistIdle
    /\ CliIdle

ClassifyNext == ClassifyPath \/ ClassifyWalk \/ ClassifyReturn

ClassifySpec == ClassifyInit /\ [][ClassifyNext]_vars

\* parseTreeStructure and separateDirectoriesAndFiles called on a text, and
\* then again and again on the same or on other texts.
RepeatInit ==
    /\ content \in RepeatContents
    /\ lines = <<>>
    /\ i = 1
    /\ paths = <<>>
    /\ comments = EmptyMap
    /\ parentStack = <<>>
    /\ level = 0
    /\ pc = "start"
    /\ line = <<>>
    /\ result = NoResult
    /\ indent = 0
    /\ lpc = "idle"
    /\ ClassIdle
    /\ RunIdle
    /\ HistIdle
    /\ CliIdle

RepeatNext ==
    \/ Next
    \/ CallClassify
    \/ ClassifyNext
    \/ \E text \in RepeatContents : CallAgain(text)

RepeatSpec == RepeatInit /\ [][RepeatNext]_vars

\* parseDirectoryFromText or parseDirectoryStructure called from main, on a
\* text or on a file that holds it.
MaterializeInit ==
    /\ content \in RunContents
    /\ mode \in {"text", "file"}
    /\ outputDir \in OutputDirs
    /\ skipConfirmation \in BOOLEAN
    /\ dryRun \in BOOLEAN
    /\ asked = FALSE
    /\ answer = <<>>
    /\ itemNo = 1
    /\ ops = <<>>
    /\ logs = <<>>
    /\ ret = NoReturn
    /\ exitCode = 0
    /\ mpc = "call"
    /\ lines = <<>>
    /\ i = 1
    /\ paths = <<>>
    /\ comments = EmptyMap
    /\ parentStack = <<>>
    /\ level = 0
    /\ pc = "idle"
    /\ line = <<>>
    /\ result = NoResult
    /\ indent = 0
    /\ lpc = "idle"
    /\ ClassIdle
    /\ HistIdle
    /\ CliIdle

\* The steps of the two functions: the read of parseDirectoryStructure, the
\* functions both call, the body of parseDirectoryFromText and the body of
\* parseDirectoryStructure.
RunStep ==
    \/ RunReadFile
    \/ ReadResolved
    \/ RunAnalyze
    \/ Next
    \/ ClassifyNext
    \/ mode = "text" /\ RunClassify
    \/ mode = "text" /\ RunCheck
    \/ \E a \in Answers : mode = "text" /\ RunConfirm(a)
    \/ mode = "text" /\ RunMkdir
    \/ mode = "text" /\ MkdirResolved
    \/ mode = "text" /\ RunDirsDone
    \/ mode = "text" /\ RunEnsureParent
    \/ mode = "text" /\ RunWriteFile
    \/ mode = "text" /\ WriteResolved
    \/ mode = "text" /\ RunFilesDone
    \/ mode = "text" /\ FsRejected
    \/ FileClassify
    \/ FileCheck
    \/ \E a \in Answers : FileConfirm(a)
    \/ FileMkdir
    \/ FileMkdirResolved
    \/ FileDirsDone
    \/ FileEnsureParent
    \/ FileWriteFile
    \/ FileWriteResolved
    \/ FileFilesDone
    \/ FileRejected

MaterializeNext ==
    \/ RunStep
    \/ RunExit

MaterializeSpec == MaterializeInit /\ [][MaterializeNext]_vars

\* Bound on the length of the argument list.
MaxArgs == 3

\* The dry-run flags of the test suite.
FlagDryRun ==
    {<<"-", "d">>, <<"-", "-", "d", "r", "y", "-", "r", "u", "n">>}

\* The arguments the lists are made of: every flag in both spellings, a
\* name, a structure text and an empty argument.
ArgTokens ==
    FlagHelp \cup FlagYes \cup FlagOutput \cup FlagStructure \cup FlagDryRun
    \cup { <<"x">>, <<"p", "/", NL, TEE, DASH, DASH, SP, "f">>, <<>> }

\* All lists of at most n arguments.
RECURSIVE ArgLists(_)
ArgLists(n) ==
    IF n = 0 THEN {<<>>}
    ELSE LET shorter == ArgLists(n - 1)
         IN shorter \cup {Append(l, a) : l \in shorter, a \in ArgTokens}

\* The combined argument list of the dry-run test: -s <text> -o <dir> -d.
ExampleArgs ==
    << <<"-", "s">>, <<"p", "/", NL, TEE, DASH, DASH, SP, "f">>,
       <<"-", "o">>, <<DOT, "/", "o">>, <<"-", "d">> >>

\* parseArgs called on one argument list.
ArgInit ==
    /\ argv \in ArgLists(MaxArgs) \cup {ExampleArgs}
    /\ options = DefaultOptions
    /\ helpShown = FALSE
    /\ apc = "args"
    /\ content = <<>>
    /\ lines = <<>>
    /\ i = 1
    /\ paths = <<>>
    /\ comments = EmptyMap
    /\ parentStack = <<>>
    /\ level = 0
    /\ pc = "idle"
    /\ line = <<>>
    /\ result = NoResult
    /\ indent = 0
    /\ lpc = "idle"
    /\ ClassIdle
    /\ RunIdle
    /\ HistIdle

ArgNext == ParseArgs

ArgSpec == ArgInit /\ [][ArgNext]_vars

\* The structure texts main is given, directly or in the structure file.
MainContents ==
    { <<"x">>,
      Join(<< <<"p", "/">> \o NOTE \o <<"r">>,
              BRANCH \o <<"g">> \o NOTE \o <<"d">>,
              LAST \o <<"a", "/">> >>) }

\* The options main is called with.
MainOptions ==
    [ filePath : {NULL, <<"s", ".", "t", "x", "t">>},
      outputDir : OutputDirs,
      skipConfirmation : BOOLEAN,
      showHelp : BOOLEAN,
      directStructure : {NULL, <<>>} \cup MainContents ]

\* main called with options.
MainInit ==
    /\ options \in MainOptions
    /\ argv = <<>>
    /\ helpShown = FALSE
    /\ apc = "main"
    /\ content = <<>>
    /\ lines = <<>>
    /\ i = 1
    /\ paths = <<>>
    /\ comments = EmptyMap
    /\ parentStack = <<>>
    /\ level = 0
    /\ pc = "idle"
    /\ line = <<>>
    /\ result = NoResult
    /\ indent = 0
    /\ lpc = "idle"
    /\ ClassIdle
    /\ RunIdle
    /\ HistIdle

MainNext ==
    \/ MainHelp
    \/ \E fileContent \in MainContents \cup {<<>>} : MainCall(fileContent)
    \/ MaterializeNext

MainSpec == MainInit /\ [][MainNext]_vars

\* parseDirectoryFromText called on a text, then parseDirectoryStructure
\* called on a file that holds the same text, with the same options.
BothInit ==
    /\ MaterializeInit
    /\ mode = "text"

\* parseDirectoryFromText has resolved: what it did is kept, and
\* parseDirectoryStructure is called with the same options on a file with
\* the same content.
CallOther ==
    /\ mpc = "returned"
    /\ mode = "text"
    /\ calls = <<>>
    /\ calls' = << [ ops |-> ops,
                     ret |-> ret,
                     asked |-> asked,
                     answer |-> answer ] >>
    /\ mode' = "file"
    /\ lines' = <<>>
    /\ i' = 1
    /\ paths' = <<>>
    /\ comments' = EmptyMap
    /\ parentStack' = <<>>
    /\ level' = 0
    /\ pc' = "idle"
    /\ pathNo' = 1
    /\ directories' = <<>>
    /\ files' = <<>>
    /\ currentDir' = <<>>
    /\ classified' = NoClassification
    /\ cpc' = "idle"
    /\ asked' = FALSE
    /\ answer' = <<>>
    /\ itemNo' = 1
    /\ ops' = <<>>
    /\ logs' = <<>>
    /\ ret' = NoReturn
    /\ mpc' = "call"
    /\ UNCHANGED <<content, outputDir, skipConfirmation, dryRun, exitCode>>
    /\ UNCHANGED <<lineVars, cliVars>>

\* The calls of a sequence of calls that create something, in order.
CreationsOf(s) == SelectSeq(s, LAMBDA c : c.op \in {"mkdir", "writeFile"})

\* The user gives the second call the answer given to the first.
SameAnswer ==
    (calls # <<>> /\ mpc = "confirm" /\ calls[1].asked) =>
        answer' = calls[1].answer

\* The file system behaves in the second call as in the first: the file is
\* read, and the k-th creation, when it is the call the first run made as
\* its k-th creation, settles as it did there.
SameFileSystem ==
    (calls # <<>> /\ mpc \in {"reading", "mkdir", "ensure", "write"}) =>
        LET n == Len(ops)
            k == Len(CreationsOf(ops))
            first == CreationsOf(calls[1].ops)
        IN IF mpc = "reading"
           THEN ops'[n].status = "ok"
           ELSE (/\ k <= Len(first)
                 /\ first[k].op = ops[n].op
                 /\ first[k].arg = ops[n].arg)
                    => ops'[n].status = first[k].status

BothNext ==
    \/ RunStep /\ SameAnswer /\ SameFileSystem
    \/ CallOther

BothSpec == BothInit /\ [][BothNext]_vars

----------------------------------------------------------------------------
(* Vocabulary of the properties *)

IsPrefix(a, b) == Len(a) <= Len(b) /\ SubSeq(b, 1, Len(a)) = a

\* The positions of character c in s.
Positions(s, c) == {k \in 1..Len(s) : s[k] = c}

\* The number of vertical bars anywhere in s.
GlyphCount(s) == Cardinality(Positions(s, VBAR))

\* s from position k to its end.
From(s, k) == SubSeq(s, k, Len(s))

\* The text before the first '#' of l (all of l when it has none).
BeforeHash(l) ==
    IF Positions(l, HASH) = {} THEN l
    ELSE SubSeq(l, 1, (CHOOSE k \in Positions(l, HASH) :
                           \A m \in Positions(l, HASH) : k <= m) - 1)

\* The text after the first '#' of l.
AfterHash(l) ==
    From(l, (CHOOSE k \in Positions(l, HASH) :
                 \A m \in Positions(l, HASH) : k <= m) + 1)

\* Position of the branch glyph that ends the leading run of whitespace and
\* vertical bars of s, 0 when the run is not followed by a branch glyph.
BranchAt(s) ==
    LET at == {k \in 1..Len(s) :
                  /\ k + 2 <= Len(s)
                  /\ s[k] \in {TEE, ELL}
                  /\ s[k + 1] = DASH
                  /\ s[k + 2] = DASH
                  /\ \A m \in 1..(k - 1) : s[m] \in Whitespace \cup {VBAR}}
    IN IF at = {} THEN 0 ELSE CHOOSE k \in at : TRUE

\* s consists of vertical bars, branch glyphs and whitespace only.
RECURSIVE GlyphOnly(_)
GlyphOnly(s) ==
    \/ s = <<>>
    \/ Head(s) \in Whitespace \cup {VBAR} /\ GlyphOnly(Tail(s))
    \/ /\ Len(s) >= 3
       /\ s[1] \in {TEE, ELL}
       /\ s[2] = DASH
       /\ s[3] = DASH
       /\ GlyphOnly(From(s, 4))

Extracted == lpc \in {"extracted", "measured"}

----------------------------------------------------------------------------
(* Properties of extractNameAndComment and calculateIndentationLevel *)

\* C4: for every line the returned comment is the whole text after the first
\* '#' up to the end of the line, trimmed, and the empty string when the line
\* has no '#'.
C4_CommentIsAllAfterFirstHash ==
    Extracted =>
        result.comment =
            IF Positions(line, HASH) = {} THEN <<>> ELSE Trim(AfterHash(line))

\* The removal C5 describes: the leading run of whitespace and vertical bars
\* goes whether or not a branch glyph follows it, with at most one branch
\* glyph and the whitespace after it.
StripLeadingRun(s) ==
    LET rest == SkipWhile(s, Whitespace \cup {VBAR}) IN
    IF BranchAt(rest) = 1 THEN SkipWhile(From(rest, 4), Whitespace) ELSE rest

\* C5: the name is the text before the first '#' with its leading run of
\* whitespace and vertical bars and an optional single branch glyph removed
\* from its start, and nothing removed elsewhere (but surrounding whitespace).
C5_LeadingRunStrippedGlyphOptional ==
    Extracted => result.name = Trim(StripLeadingRun(Trim(BeforeHash(line))))

\* C7 as stated: a non-blank line with no '#' comes back trimmed as the name,
\* with an empty comment.
C7_NameIsLineTrimmed ==
    (Extracted /\ Positions(line, HASH) = {} /\ Trim(line) # <<>>) =>
        result = [name |-> Trim(line), comment |-> <<>>]

\* C7 as amended: a non-blank line with no '#' has an empty comment, and its
\* name is the trimmed line, less the prefix up to and including the branch
\* glyph (and the whitespace around what is left) when the trimmed line's
\* leading run of whitespace and vertical bars ends at a branch glyph.
C7_NameIsLineTrimmedLessBranchPrefix ==
    (Extracted /\ Positions(line, HASH) = {} /\ Trim(line) # <<>>) =>
        LET t == Trim(line)
            k == BranchAt(t)
        IN /\ result.comment = <<>>
           /\ result.name = IF k = 0 THEN t ELSE Trim(From(t, k + 3))

\* A line with no '#' whose vertical bar and branch glyph are removed: the
\* name is not the trimmed line.
C7_Witness ==
    /\ Extracted
    /\ Positions(line, HASH) = {}
    /\ line # <<>> /\ line[1] = VBAR
    /\ BranchAt(Trim(line)) > 1
    /\ result.name = <<"a">>

\* C8: calculateIndentationLevel returns the number of vertical bars that
\* occur anywhere in the line, and parseTreeStructure takes as the level of a
\* line that number computed on the raw line, comment included.
C8_LevelIsBarCount ==
    /\ lpc = "measured" => indent = GlyphCount(line)
    /\ (pc \in {"loop", "done"} /\ i > 2) => level = GlyphCount(lines[i - 1])

\* A line with a vertical bar in its leading run, one after the branch glyph
\* and one in its comment, measured as level 3.
C8_Witness ==
    /\ lpc = "measured"
    /\ indent = 3
    /\ BranchAt(line) = 2
    /\ Positions(line, HASH) # {}
    /\ GlyphCount(BeforeHash(line)) = 2
    /\ GlyphCount(AfterHash(line)) = 1

----------------------------------------------------------------------------
(* Vocabulary of the properties of parseTreeStructure *)

\* The lines of a text, read off its line feeds: the maximal segments that
\* hold no line feed.
Segments(text) ==
    LET starts == {a \in 1..Len(text) : a = 1 \/ text[a - 1] = NL}
        EndOf(a) == CHOOSE b \in (a - 1)..Len(text) :
                        /\ \A k \in a..b : text[k] # NL
                        /\ b = Len(text) \/ text[b + 1] = NL
    IN {SubSeq(text, a, EndOf(a)) : a \in starts}

\* The text has no non-blank line.
AllBlank(text) == \A k \in 1..Len(text) : text[k] \in Whitespace \cup {NL}

Done == pc = "done"

\* The decomposed name of line j of the walk (line 1 is the root line).
NameOf(j) == extractNameAndComment(lines[j]).name

\* Line j is an entry: its name is not empty.
IsEntry(j) == NameOf(j) # <<>>

IsDirLine(j) == IsEntry(j) /\ EndsWith(NameOf(j), SLASH)

\* The lines after the root line that are entries.
Entries == {j \in 2..Len(lines) : IsEntry(j)}

\* The path emitted for entry j: entries are emitted in line order.
PathOf(j) == paths[Cardinality({m \in 1..j : IsEntry(m)})]

\* Nesting depth of line j, by its vertical bars.
Depth(j) == GlyphCount(lines[j])

\* The directory line that encloses entry j of depth d: the root line when
\* d = 0, otherwise the last directory line of depth d - 1 before j with no
\* shallower entry in between; 0 when there is none.
EnclosingDir(j) ==
    IF Depth(j) = 0 THEN 1
    ELSE LET cand == {k \in Entries :
                         /\ k < j
                         /\ IsDirLine(k)
                         /\ Depth(k) + 1 = Depth(j)
                         /\ \A m \in Entries :
                                (k < m /\ m < j) => Depth(m) >= Depth(j)}
         IN IF cand = {} THEN 0
            ELSE CHOOSE k \in cand : \A m \in cand : m <= k

\* Every entry after the root line has its enclosing directory.
WellFormed == \A j \in Entries : EnclosingDir(j) # 0

\* The root name, the names of the enclosing directories of j and its name.
RECURSIVE NamesDown(_)
NamesDown(j) ==
    IF j = 1 THEN NameOf(1) ELSE NamesDown(EnclosingDir(j)) \o NameOf(j)

\* The root line is a directory name with no tree glyph before it.
ProperRoot ==
    /\ IsDirLine(1)
    /\ \A k \in 1..Len(BeforeHash(lines[1])) :
           lines[1][k] \notin {VBAR, TEE, ELL, DASH}

\* The path of the directory that encloses entry j.
EnclosingPath(j) ==
    IF EnclosingDir(j) = 1 THEN NameOf(1) ELSE PathOf(EnclosingDir(j))

\* Nesting of line j: 0 for the root line, depth + 1 for the others.
Nesting(j) == IF j = 1 THEN 0 ELSE Depth(j) + 1

----------------------------------------------------------------------------
(* Properties of parseTreeStructure *)

\* C1: for a well-formed tree (the first non-blank line is the root, every
\* later entry of depth d has d vertical bars and follows a directory line of
\* depth d - 1 with no shallower line in between) the path emitted for each
\* line is the root name, then the names of its enclosing directories, then
\* its own name; the project example yields its seven paths.
C1_WellFormedTreePaths ==
    /\ (Done /\ lines # <<>> /\ WellFormed) =>
           /\ Len(paths) = Cardinality({m \in 1..Len(lines) : IsEntry(m)})
           /\ IsEntry(1) => PathOf(1) = NameOf(1)
           /\ \A j \in Entries : PathOf(j) = NamesDown(j)
    /\ (Done /\ content = Join(ExampleLines)) =>
           paths = << Project,
                      Project \o Src,
                      Project \o Src \o Components,
                      Project \o Src \o Components \o ButtonJs,
                      Project \o Src \o Components \o InputJs,
                      Project \o Src \o IndexJs,
                      Project \o PackageJson >>

\* A well-formed tree of the catalogue three levels deep, parsed.
C1_Witness ==
    /\ Done
    /\ content # Join(ExampleLines)
    /\ lines # <<>>
    /\ WellFormed
    /\ ProperRoot
    /\ \A j \in Entries : BranchAt(lines[j]) # 0
    /\ \E j \in Entries : Depth(j) = 2 /\ PathOf(j) = NamesDown(j)

\* Entry j is drawn beneath the last-child directory line k: k is a directory
\* drawn with the corner glyph, j is drawn one indentation unit further to
\* the right with a blank in the column of k's glyph, and no entry between
\* them is drawn further to the left than j.
DrawnBeneathLast(j, k) ==
    /\ k < j
    /\ IsDirLine(k)
    /\ BranchAt(lines[k]) # 0
    /\ lines[k][BranchAt(lines[k])] = ELL
    /\ BranchAt(lines[j]) = BranchAt(lines[k]) + 4
    /\ lines[j][BranchAt(lines[k])] = SP
    /\ \A m \in Entries :
           (k < m /\ m < j) => BranchAt(lines[m]) >= BranchAt(lines[j])

\* C2: in a tree under a root directory line, an entry drawn beneath a
\* last-child directory, whose children are indented with blanks instead of
\* vertical bars, is emitted with that directory's full path as its prefix.
C2_ChildOfLastChildDirectory ==
    (Done /\ lines # <<>> /\ ProperRoot) =>
        \A j \in Entries : \A k \in Entries :
            DrawnBeneathLast(j, k) => PathOf(j) = PathOf(k) \o NameOf(j)

\* C3: in a well-formed tree the full path of a directory line of depth D is
\* a prefix of the path of every later entry up to the first later entry of
\* depth <= D; that entry is built from the ancestor at its own depth.
C3_DirectoryPrefixUntilShallower ==
    (Done /\ lines # <<>> /\ WellFormed) =>
        \A k \in {d \in Entries \cup {1} : IsDirLine(d)} :
            \A j \in Entries :
                k < j =>
                    LET deeperBefore ==
                            \A m \in Entries :
                                (k < m /\ m < j) => Nesting(m) > Nesting(k)
                    IN /\ (deeperBefore /\ Nesting(j) > Nesting(k)) =>
                              IsPrefix(PathOf(k), PathOf(j))
                       /\ (deeperBefore /\ Nesting(j) <= Nesting(k)) =>
                              PathOf(j) = EnclosingPath(j) \o NameOf(j)

\* A directory of depth 0, an entry beneath it that carries its path, then an
\* entry of depth 0 that does not.
C3_Witness ==
    /\ Done
    /\ lines # <<>>
    /\ WellFormed
    /\ ProperRoot
    /\ \A j \in Entries : BranchAt(lines[j]) # 0
    /\ \E k \in Entries : \E j \in Entries : \E n \in Entries :
           /\ IsDirLine(k)
           /\ k < j /\ j < n
           /\ Depth(j) > Depth(k)
           /\ Depth(n) <= Depth(k)
           /\ IsPrefix(PathOf(k), PathOf(j))
           /\ ~IsPrefix(PathOf(k), PathOf(n))

\* C6: a line of tree glyphs and whitespace only is no entry: the walk
\* appends nothing to paths, records no comment and leaves the stack alone.
C6_GlyphOnlyLineIsSkipped ==
    [][(pc = "loop" /\ i <= Len(lines) /\ GlyphOnly(lines[i])) =>
           (paths' = paths /\ comments' = comments /\ parentStack' = parentStack)]_vars

\* C9 as stated: paths is empty only for a text with no non-blank line, and
\* no text makes the parser fail.
C9_EmptyPathsOnlyForBlankText ==
    /\ pc # "error"
    /\ Done => (paths = <<>> <=> AllBlank(content))

\* C9 as amended: paths is empty exactly when no line of the text has a
\* non-empty decomposed name; a single line with no glyph and no '#' is the
\* lone path; no text makes the parser fail.
C9_EmptyPathsOnlyForNamelessText ==
    /\ pc # "error"
    /\ Done =>
           (paths = <<>> <=>
                \A seg \in Segments(content) :
                    extractNameAndComment(seg).name = <<>>)
    /\ (Done /\ ~AllBlank(content)
             /\ \A k \in 1..Len(content) :
                    content[k] \notin {NL, HASH, VBAR, TEE, ELL, DASH}) =>
           paths = <<Trim(content)>>

\* A text whose lines are not all blank and that yields no path.
C9_Witness ==
    /\ Done
    /\ ~AllBlank(content)
    /\ paths = <<>>
    /\ Len(lines) >= 2

\* C10: a text with no non-blank line yields { paths: [], comments: {} } and
\* no error.
C10_BlankTextYieldsEmptyResult ==
    AllBlank(content) =>
        /\ pc \in {"start", "done"}
        /\ Done => (paths = <<>> /\ comments = EmptyMap)

\* A text of two whitespace-only lines, parsed.
C10_Witness ==
    /\ Done
    /\ AllBlank(content)
    /\ \E k \in 1..Len(content) : content[k] = NL
    /\ paths = <<>>
    /\ comments = EmptyMap


IsSuffix(a, b) == Len(a) <= Len(b) /\ SubSeq(b, Len(b) - Len(a) + 1, Len(b)) = a

\* The positions of a text at which a line starts.
LineStarts(text) ==
    {a \in 1..(Len(text) + 1) : a = 1 \/ text[a - 1] = NL}

\* The line of a text that starts at position a.
LineFrom(text, a) ==
    LET b == CHOOSE b \in (a - 1)..Len(text) :
                 /\ \A k \in a..b : text[k] # NL
                 /\ b = Len(text) \/ text[b + 1] = NL
    IN SubSeq(text, a, b)

\* The starts of the non-blank lines of a text.
NonBlankStarts(text) ==
    {a \in LineStarts(text) : ~AllBlank(LineFrom(text, a))}

\* The lines the walk has handled so far.
Handled == 1..(i - 1)

\* The decomposed comment of line j of the walk.
CommentAt(j) == extractNameAndComment(lines[j]).comment

\* The handled entries that carry a comment.
Commented == {m \in Handled : IsEntry(m) /\ CommentAt(m) # <<>>}

\* C11: paths holds exactly one entry per non-blank input line whose
\* decomposed name is not empty, in the order of those lines: at every point
\* of the walk there are as many paths as handled lines with a name, the path
\* of each such line ends with its name, and the lines that were walked are
\* the non-blank lines of the text in text order.
C11_OnePathPerNamedLine ==
    pc \in {"loop", "done"} =>
        LET nb == NonBlankStarts(content)
            name == [m \in Handled |-> NameOf(m)]
            named == {m \in Handled : name[m] # <<>>}
        IN
        /\ Done =>
               /\ Len(lines) = Cardinality(nb)
               /\ \A a \in nb :
                      lines[Cardinality({b \in nb : b <= a})] =
                          LineFrom(content, a)
        /\ Len(paths) = Cardinality(named)
        /\ \A m \in named :
               IsSuffix(name[m], paths[Cardinality({k \in named : k <= m})])

\* A text with a blank line, a nameless line and named lines, parsed: fewer
\* paths than non-blank lines, more than one path.
C11_Witness ==
    /\ Done
    /\ Len(lines) < Cardinality(LineStarts(content))
    /\ Len(paths) < Len(lines)
    /\ Len(paths) >= 2
    /\ ProperRoot

\* C12: comments has an entry for a path exactly when some line producing
\* that path carried a non-empty comment, the value is the comment of the last
\* such line, and no entry is empty; the root comment is under the root name.
C12_CommentsLastWriteWins ==
    pc \in {"loop", "done"} =>
        LET e == [m \in Handled |-> extractNameAndComment(lines[m])]
            named == {m \in Handled : e[m].name # <<>>}
            path == [m \in named |-> paths[Cardinality({k \in named : k <= m})]]
            noted == {m \in named : e[m].comment # <<>>}
        IN
        /\ DOMAIN comments = {path[m] : m \in noted}
        /\ \A m \in noted :
               (\A n \in noted : path[n] = path[m] => n <= m) =>
                   comments[path[m]] = e[m].comment
        /\ \A p \in DOMAIN comments : comments[p] # <<>>
        /\ (1 \in noted /\ i = 2) => comments[e[1].name] = e[1].comment

\* Two lines that produce the same path with different comments: the later
\* comment is the one stored; the root comment is stored too.
C12_Witness ==
    /\ Done
    /\ 1 \in Commented
    /\ \E m \in Commented : \E n \in Commented :
           /\ m < n
           /\ PathOf(m) = PathOf(n)
           /\ CommentAt(m) # CommentAt(n)
           /\ comments[PathOf(n)] = CommentAt(n)

----------------------------------------------------------------------------
(* Vocabulary of the properties of separateDirectoriesAndFiles *)

Returned == cpc = "done"

Members(seq) == {seq[j] : j \in 1..Len(seq)}

NoRepeat(seq) == \A j \in 1..Len(seq) : \A m \in 1..Len(seq) :
                     seq[j] = seq[m] => j = m

\* The input paths that end in '/', and the positions of those that do not.
InputDirs == {paths[j] : j \in {m \in 1..Len(paths) : EndsWith(paths[m], SLASH)}}
InputFileAt == {j \in 1..Len(paths) : ~EndsWith(paths[j], SLASH)}

\* The prefixes of p that end at a '/'.
DirPrefixes(p) == {SubSeq(p, 1, j) : j \in Positions(p, SLASH)}

\* p has an empty component: it begins with '/' or holds "//".
HasEmptyComponent(p) ==
    \/ p # <<>> /\ p[1] = SLASH
    \/ \E j \in 1..(Len(p) - 1) : p[j] = SLASH /\ p[j + 1] = SLASH

\* p begins with the component ".".
BeginsWithDot(p) == IsPrefix(<<DOT, SLASH>>, p)

\* The place of member d in sequence seq.
PlaceIn(seq, d) == CHOOSE j \in 1..Len(seq) : seq[j] = d

\* C13: separateDirectoriesAndFiles terminates for every list of paths,
\* relative or beginning with '/': the walk over the parents of a file never
\* comes to a directory from which the next step leads to that same
\* directory with the loop test still passing.
C13_ParentWalkNeverStuck ==
    ~(cpc = "while" /\ WalkContinues(currentDir)
                    /\ dirname(currentDir) = currentDir)

\* C14: on return, for every file path of the input each prefix of it that
\* ends at a '/' is among the returned directories, the directories hold only
\* input paths ending in '/' and such prefixes, and each at most once.
C14_EveryAncestorIsADirectory ==
    Returned =>
        /\ \A j \in InputFileAt :
               DirPrefixes(paths[j]) \subseteq Members(classified.directories)
        /\ \A d \in Members(classified.directories) :
               d \in InputDirs \/ \E j \in InputFileAt : d \in DirPrefixes(paths[j])
        /\ NoRepeat(classified.directories)

\* C14, amended: the same, for the file paths that have no empty component
\* and do not begin with "./".
C14_EveryAncestorOfAPlainPathIsADirectory ==
    Returned =>
        /\ \A j \in InputFileAt :
               (~HasEmptyComponent(paths[j]) /\ ~BeginsWithDot(paths[j])) =>
                   DirPrefixes(paths[j]) \subseteq Members(classified.directories)
        /\ \A d \in Members(classified.directories) :
               d \in InputDirs \/ \E j \in InputFileAt : d \in DirPrefixes(paths[j])
        /\ NoRepeat(classified.directories)

\* A file two directories deep, neither of them an input path, classified
\* together with a directory that is both listed and the parent of a file.
C14_Witness ==
    /\ Returned
    /\ \E j \in InputFileAt :
           /\ ~HasEmptyComponent(paths[j])
           /\ Cardinality(DirPrefixes(paths[j])) = 2
           /\ DirPrefixes(paths[j]) \cap InputDirs = {}
           /\ DirPrefixes(paths[j]) \subseteq Members(classified.directories)
    /\ \E j \in InputFileAt : DirPrefixes(paths[j]) \cap InputDirs # {}

\* C15: the returned directories are the directory set ordered by
\* non-decreasing count of '/', so no directory comes before a directory it
\* lies in, and directories of equal count keep their order of insertion.
C15_DirectoriesSortedByDepthStably ==
    Returned =>
        LET out == classified.directories
        IN
        /\ Members(out) = Members(directories)
        /\ Len(out) = Len(directories)
        /\ \A j \in 1..Len(out) : \A m \in 1..Len(out) :
               j < m => SlashCount(out[j]) <= SlashCount(out[m])
        /\ \A j \in 1..Len(out) : \A m \in 1..Len(out) :
               (out[j] # out[m] /\ IsPrefix(out[j], out[m])) => j < m
        /\ \A j \in 1..Len(out) : \A m \in 1..Len(out) :
               (j < m /\ SlashCount(out[j]) = SlashCount(out[m])) =>
                   PlaceIn(directories, out[j]) < PlaceIn(directories, out[m])

\* A deeper directory was inserted before a shallower one, and two of equal
\* depth are returned.
C15_Witness ==
    /\ Returned
    /\ classified.directories # directories
    /\ \E j \in 1..Len(directories) : \E m \in 1..Len(directories) :
           /\ j < m
           /\ SlashCount(directories[j]) > SlashCount(directories[m])
           /\ IsPrefix(directories[m], directories[j])
    /\ \E j \in 1..Len(directories) : \E m \in 1..Len(directories) :
           /\ j # m
           /\ SlashCount(directories[j]) = SlashCount(directories[m])

\* C16: the returned files are the input paths that do not end in '/', in
\* input order and each as often as in the input; every input path that ends
\* in '/' is among the directories, and no file ends in '/'.
C16_FilesAreTheNonSlashPathsInOrder ==
    Returned =>
        LET NotDir(q) == ~EndsWith(q, SLASH)
        IN
        /\ classified.files = SelectSeq(paths, NotDir)
        /\ InputDirs \subseteq Members(classified.directories)
        /\ \A j \in 1..Len(classified.files) :
               ~EndsWith(classified.files[j], SLASH)

\* A list with a directory, a file that holds a '/', and one file twice.
C16_Witness ==
    /\ Returned
    /\ InputDirs # {}
    /\ \E j \in InputFileAt : SlashCount(paths[j]) > 0
    /\ \E j \in InputFileAt : \E m \in InputFileAt : j # m /\ paths[j] = paths[m]
    /\ Len(classified.files) = Cardinality(InputFileAt)

----------------------------------------------------------------------------
(* Properties of the materialization functions and of main *)

\* The positions of the calls of kind op among the calls on fileSystem.
CallsOf(op) == {j \in 1..Len(ops) : ops[j].op = op}

\* The calls that create something.
Creations == CallsOf("mkdir") \cup CallsOf("writeFile")

\* The number of calls made before the first creation (the read, if any).
ReadCalls == Cardinality(CallsOf("readFile"))

\* Call j creates the k-th directory of the classification.
CreatesDirectory(j, k) ==
    /\ ops[j].op = "mkdir"
    /\ ops[j].arg = PathJoin(outputDir, classified.directories[k])

\* Call j is a mkdir of the directory the file written by call j + 1 is in.
EnsuresParentOfNext(j) ==
    /\ ops[j].op = "mkdir"
    /\ j < Len(ops) =>
           /\ ops[j + 1].op = "writeFile"
           /\ dirname(ops[j + 1].arg) = ops[j].arg

\* The answers confirmAction is meant to accept: y or yes in any letter
\* case, or nothing.
AcceptedAnswers ==
    {<<>>}
    \cup {<<a>> : a \in {"y", "Y"}}
    \cup {<<a, b, c>> : a \in {"y", "Y"}, b \in {"e", "E"}, c \in {"s", "S"}}

\* C17: directories fully before any files: every mkdir call is issued and
\* completed before the first writeFile call, and no mkdir is issued once
\* file creation has started.
C17_EveryMkdirBeforeFirstWriteFile ==
    \A j \in CallsOf("mkdir") : \A m \in CallsOf("writeFile") :
        j < m /\ ops[j].status = "ok"

\* C17, amended: the calls are made one after the other, each completed
\* before the next is issued; the directories of the classification are
\* created first, in their order, all of them before the first writeFile;
\* every later mkdir is for the parent of the file whose writeFile follows
\* it, and every writeFile follows such a mkdir.
C17_ClassifiedDirectoriesBeforeFirstWriteFile ==
    LET nDirs == Len(classified.directories)
    IN
    /\ \A j \in 1..(Len(ops) - 1) : ops[j].status = "ok"
    /\ \A j \in Creations :
           j - ReadCalls <= nDirs => CreatesDirectory(j, j - ReadCalls)
    /\ \A j \in CallsOf("mkdir") :
           j - ReadCalls > nDirs => EnsuresParentOfNext(j)
    /\ \A m \in CallsOf("writeFile") :
           /\ m - ReadCalls > nDirs + 1
           /\ EnsuresParentOfNext(m - 1)
           /\ \A k \in 1..nDirs : CreatesDirectory(ReadCalls + k, k)

\* Three directories and two files created.
C17_Witness ==
    /\ Len(classified.directories) = 3
    /\ Cardinality(CallsOf("writeFile")) >= 2
    /\ Cardinality(CallsOf("mkdir")) >= 5
    /\ ops[Len(ops)].status = "ok"

\* C18: a failed readFile, mkdir or writeFile is the last call of the run;
\* the calls before it stay done, the error is logged, the function resolves
\* with success false and that error, and main returns exit code 1.
C18_FailedCallEndsTheRun ==
    \A j \in 1..Len(ops) :
        ops[j].status = "failed" =>
            /\ j = Len(ops)
            /\ \A m \in 1..(j - 1) : ops[m].status = "ok"
            /\ logs[Len(logs)] = MsgError
            /\ ret.resolved /\ ~ret.success
            /\ ret.error = [op |-> ops[j].op, arg |-> ops[j].arg]
            /\ mpc \in {"returned", "exited"}
            /\ mpc = "exited" => exitCode = 1

\* A writeFile failed after a directory and a file had been created, and
\* main has returned.
C18_Witness ==
    /\ mpc = "exited"
    /\ ops # <<>>
    /\ ops[Len(ops)].status = "failed"
    /\ ops[Len(ops)].op = "writeFile"
    /\ \E j \in CallsOf("writeFile") : ops[j].status = "ok"
    /\ exitCode = 1

\* The question of confirmAction was put and its answer has arrived.
Answered == asked /\ mpc # "confirm"

\* The question of confirmAction is put and no answer has arrived yet.
Waiting == asked /\ mpc = "confirm"

\* C19: no mkdir and no writeFile is issued unless skipConfirmation is set
\* or the answer to the prompt was y, yes (in any letter case) or empty,
\* and none while the function waits for the answer; on
\* any other answer the function returns success false with no error and
\* has created nothing.
C19_NoCreationWithoutConsent ==
    /\ Creations # {} =>
           skipConfirmation \/ (Answered /\ answer \in AcceptedAnswers)
    /\ Waiting => (Creations = {} /\ ~ret.resolved)
    /\ (Answered /\ answer \notin AcceptedAnswers) =>
           /\ ret.resolved /\ ~ret.success
           /\ ret.error = NoError
           /\ Creations = {}
    /\ (Answered /\ answer \in AcceptedAnswers) =>
           (~ret.resolved \/ Creations # {})

\* The prompt was answered "YeS" and a directory was created.
C19_Witness ==
    /\ ~skipConfirmation
    /\ asked
    /\ answer = <<"Y", "e", "S">>
    /\ CallsOf("mkdir") # {}
    /\ CallsOf("writeFile") # {}

\* C20: with option dryRun true on a non-empty structure (and no question
\* to answer), parseDirectoryFromText issues no mkdir and no writeFile, and
\* resolves with success true after logging that nothing was created.
C20_DryRunCreatesNothing ==
    (dryRun /\ skipConfirmation /\ mode = "text") =>
        /\ Creations = {}
        /\ (ret.resolved /\ Len(classified.directories) + Len(classified.files) > 0)
               => /\ ret.success
                  /\ \E j \in 1..Len(logs) :
                         logs[j] = "DRY RUN: No files or directories were created."

\* Classification has returned no directory and no file.
EmptyStructure ==
    /\ cpc = "done"
    /\ Len(classified.directories) = 0
    /\ Len(classified.files) = 0

\* C21: on an empty structure the function logs 'No valid structure found',
\* returns success false without an error, never asks for confirmation and
\* issues no mkdir and no writeFile.
C21_EmptyStructureReturnsFailureUntouched ==
    EmptyStructure =>
        /\ ~asked
        /\ Creations = {}
        /\ mpc \in {"classify", "returned", "exited"}
        /\ mpc \in {"returned", "exited"} =>
               /\ logs[Len(logs)] = MsgNoStructure
               /\ ret.resolved /\ ~ret.success
               /\ ret.error = NoError
        /\ mpc = "exited" => exitCode = 1

\* A line of glyphs only, with no confirmation to skip: the run has ended.
C21_Witness ==
    /\ EmptyStructure
    /\ content # <<>>
    /\ ~skipConfirmation
    /\ mpc = "exited"
    /\ exitCode = 1

----------------------------------------------------------------------------
(* Properties of calls made in a row *)

\* C22: calls on the same text give the same paths, in the same order, and
\* the same comments, whatever calls were made before or in between; calls
\* of the classifier on the same list of paths give the same directories
\* and files.
C22_SameInputSameResult ==
    \A a \in 1..Len(calls) : \A b \in 1..Len(calls) :
        /\ calls[a].text = calls[b].text =>
               /\ calls[a].paths = calls[b].paths
               /\ calls[a].comments = calls[b].comments
        /\ calls[a].paths = calls[b].paths =>
               calls[a].classified = calls[b].classified

\* Three calls have returned: the first and the last on the same tree, the
\* one between them on another text that gives paths of its own.
C22_Witness ==
    /\ Len(calls) = 3
    /\ calls[1].text = calls[3].text
    /\ calls[2].text # calls[1].text
    /\ calls[2].paths # <<>>
    /\ calls[2].paths # calls[1].paths
    /\ Len(calls[1].paths) = 3
    /\ DOMAIN calls[1].comments # {}
    /\ Len(calls[1].classified.directories) = 2
    /\ calls[1].paths = calls[3].paths

----------------------------------------------------------------------------
(* Properties of main *)

\* An option is given: it is neither null nor the empty text.
Given(v) == v # NULL /\ v # <<>>

\* C23: main returns 0 when help is asked for; 1, after showing the help and
\* with no call on the file system, when neither a structure file nor a
\* direct structure is given; otherwise 0 exactly when the materialization
\* resolved with success true, 1 when with success false.  When both a file
\* and a direct structure are given, the direct structure is used and no
\* file is read.
C23_ExitCodeOfMain ==
    /\ (apc = "left" /\ mpc = "exited") =>
           IF options.showHelp
           THEN exitCode = 0 /\ helpShown /\ ops = <<>>
           ELSE IF ~Given(options.filePath) /\ ~Given(options.directStructure)
           THEN exitCode = 1 /\ helpShown /\ ops = <<>>
           ELSE /\ ~helpShown
                /\ ret.resolved
                /\ ret.success => exitCode = 0
                /\ ~ret.success => exitCode = 1
    /\ (apc = "left" /\ ~helpShown /\ Given(options.filePath)
                     /\ Given(options.directStructure)) =>
           /\ mode = "text"
           /\ content = options.directStructure
           /\ CallsOf("readFile") = {}

\* Both a file and a direct structure were given, the structure was created
\* and main has returned 0.
C23_Witness ==
    /\ apc = "left"
    /\ mpc = "exited"
    /\ Given(options.filePath)
    /\ Given(options.directStructure)
    /\ ret.success
    /\ exitCode = 0
    /\ CallsOf("writeFile") # {}

----------------------------------------------------------------------------
(* Properties of parseArgs *)

Parsed == apc = "parsed"

\* The positions of the argument list that hold one of the flags.
FlagAt(flags) == {k \in 1..Len(argv) : argv[k] \in flags}

\* An argument that is a text: not empty and not a flag.
IsText(a) ==
    /\ a # <<>>
    /\ a \notin FlagHelp \cup FlagYes \cup FlagOutput \cup FlagStructure
                \cup FlagDryRun

\* C24: when -s or --structure is followed by a text (here: the list has one
\* such flag, no output flag right before it to take it as a value, and no
\* empty argument), parseArgs returns that text as directStructure and null
\* as filePath, whatever else is in the list and in whatever order; filePath
\* and directStructure are never both set.
C24_StructureFlagExcludesFilePath ==
    (Parsed /\ \A m \in 1..Len(argv) : argv[m] # <<>>) =>
        /\ \A k \in FlagAt(FlagStructure) :
               ( /\ FlagAt(FlagStructure) = {k}
                 /\ k < Len(argv)
                 /\ IsText(argv[k + 1])
                 /\ (k - 1) \notin FlagAt(FlagOutput) ) =>
                   /\ options.directStructure = argv[k + 1]
                   /\ options.filePath = NULL
        /\ ~(options.filePath # NULL /\ options.directStructure # NULL)

\* C25: for every argument list that holds -d or --dry-run, the options
\* returned have dryRun true, and the flag is not taken as the file path.
C25_DryRunFlagRecognised ==
    (Parsed /\ FlagAt(FlagDryRun) # {}) =>
        /\ "dryRun" \in DOMAIN options
        /\ options.dryRun = TRUE
        /\ options.filePath \notin FlagDryRun

----------------------------------------------------------------------------
(* Properties of the ancestor stack of parseTreeStructure *)

\* The walk is under way or has ended: the root line has been handled.
Walking == pc = "loop" \/ (pc = "done" /\ lines # <<>>)

\* C27: in every state of the walk the stack holds at least one entry and
\* its entry 0 is the name of the first non-blank line, empty or not: no
\* line, whatever its level, pops or replaces it.
C27_RootStaysAtTheBottomOfTheStack ==
    Walking =>
        /\ Len(parentStack) >= 1
        /\ parentStack[1] = NameOf(1)

\* A root line with an empty name; a directory was pushed and a later line
\* of level 0 has popped the stack back to the root.
C27_Witness ==
    /\ pc = "loop"
    /\ NameOf(1) = <<>>
    /\ i > 3
    /\ level = 0
    /\ parentStack = << <<>> >>
    /\ \E m \in 2..(i - 2) : IsDirLine(m)

\* C30: every path emitted is non-empty and begins with the root name, and
\* so does every entry of the stack.
C30_EveryPathBeginsWithTheRootName ==
    Walking =>
        LET rootName == NameOf(1)
        IN
        /\ \A j \in 1..Len(paths) :
               paths[j] # <<>> /\ IsPrefix(rootName, paths[j])
        /\ \A k \in 1..Len(parentStack) : IsPrefix(rootName, parentStack[k])

\* A tree under a named root with a directory two levels down and a line
\* whose indentation skips a level.
C30_Witness ==
    /\ Done
    /\ lines # <<>>
    /\ ProperRoot
    /\ Len(paths) >= 4
    /\ \E j \in Entries : Depth(j) = 2 /\ EnclosingDir(j) = 0
    /\ \E j \in 1..Len(paths) : Len(paths[j]) >= Len(NameOf(1)) + 4

\* The level of line j of the walk.
LevelOf(j) == calculateIndentationLevel(lines[j])

\* The stack as the pop rule leaves it for a line of level lvl: cut to
\* lvl + 1 entries when it holds more, otherwise as it is.
CutTo(stack, lvl) ==
    IF Len(stack) > lvl + 1 THEN SubSeq(stack, 1, lvl + 1) ELSE stack

\* C28: a step that handles a named line of level L cuts the stack to exactly
\* L + 1 entries when it holds more and otherwise leaves it as it is; the
\* line is emitted as a child of the top of that stack, whatever its
\* indentation, and a directory line is then pushed on it.
C28_PopRuleAndLeniency ==
    [][(pc = "loop" /\ i <= Len(lines) /\ IsEntry(i)) =>
           LET base == CutTo(parentStack, LevelOf(i))
               child == base[Len(base)] \o NameOf(i)
           IN /\ paths' = Append(paths, child)
              /\ parentStack' =
                     IF IsDirLine(i) THEN Append(base, child) ELSE base]_vars

\* Four lines: a directory under the root, then an entry two levels deeper
\* than the stack reaches, emitted as a child of that directory, then an
\* entry of level 0 that pops the stack back to the root.
C28_Witness ==
    /\ Done
    /\ Len(lines) = 4
    /\ IsDirLine(2) /\ LevelOf(2) = 0
    /\ IsEntry(3) /\ LevelOf(3) >= 2
    /\ IsEntry(4) /\ LevelOf(4) = 0
    /\ Len(paths) >= 3
    /\ paths[Len(paths) - 1] = paths[Len(paths) - 2] \o NameOf(3)
    /\ paths[Len(paths)] = NameOf(1) \o NameOf(4)
    /\ Len(parentStack) = 1 + (IF IsDirLine(4) THEN 1 ELSE 0)

\* The names and the levels of the lines handled so far.
NamesSoFar == [j \in Handled |-> NameOf(j)]

LevelsSoFar == [j \in Handled |-> LevelOf(j)]

\* The stack is indexed by depth + 1, and parents are one level up: the
\* entry at position p >= 2 (index p - 1 of the code) ends in a slash and is
\* the path emitted for a handled directory line of level p - 2, and every
\* handled entry of level d >= 1 was emitted as the child of a directory
\* line of level d - 1, every one of level 0 as a child of the root.
IndexedByDepth(name, lvl) ==
    LET seen == {j \in 2..(i - 1) : name[j] # <<>>}
        dirs == {j \in seen : EndsWith(name[j], SLASH)}
        at == [j \in seen |->
                  paths[Cardinality({m \in 1..j : name[m] # <<>>})]]
    IN
    /\ \A p \in 2..Len(parentStack) :
           /\ EndsWith(parentStack[p], SLASH)
           /\ \E m \in dirs : lvl[m] = p - 2 /\ at[m] = parentStack[p]
    /\ \A j \in seen :
           IF lvl[j] = 0
           THEN at[j] = name[1] \o name[j]
           ELSE \E m \in dirs :
                    /\ m < j
                    /\ lvl[m] = lvl[j] - 1
                    /\ at[j] = at[m] \o name[j]

\* No handled entry is indented deeper than the stack reaches: the first
\* entry after the root has level 0, and every later one is at most one
\* level deeper than the entry before it when that is a directory, and no
\* deeper than it otherwise.
NoSkippedLevel(name, lvl) ==
    LET seen == {j \in 2..(i - 1) : name[j] # <<>>}
        before == [j \in seen |-> {m \in seen : m < j}]
        Last(S) == CHOOSE m \in S : \A k \in S : k <= m
    IN
    \A j \in seen :
        IF before[j] = {}
        THEN lvl[j] = 0
        ELSE LET m == Last(before[j])
             IN lvl[j] <= lvl[m] + (IF EndsWith(name[m], SLASH) THEN 1 ELSE 0)

\* Every name handled so far is free of vertical bars.
PlainNames(name) ==
    \A j \in DOMAIN name : \A k \in 1..Len(name[j]) : name[j][k] # VBAR

\* C26 as stated: at every point of the walk the stack is indexed by
\* depth + 1 and the parent of a line of depth d is a directory of depth
\* d - 1, or the root for d = 0.  Stated over the texts whose names are
\* plain, so that only the levels of the lines are in question.
C26_StackIndexedByDepth ==
    Walking =>
        LET name == NamesSoFar
            lvl == LevelsSoFar
        IN PlainNames(name) => IndexedByDepth(name, lvl)

\* C26, amended: the stack is indexed by depth + 1, and parents are one
\* level up, as long as no handled line is indented deeper than the stack
\* reaches.
C26_StackIndexedByDepthWithoutSkips ==
    Walking =>
        LET name == NamesSoFar
            lvl == LevelsSoFar
        IN NoSkippedLevel(name, lvl) => IndexedByDepth(name, lvl)

\* A tree without skipped levels: a directory of level 0, a directory of
\* level 1 inside it, then a second directory of level 0, which pops both
\* and takes index 1 of the stack.
C26_Witness ==
    /\ Walking
    /\ i = 5
    /\ NoSkippedLevel(NamesSoFar, LevelsSoFar)
    /\ IsDirLine(2) /\ LevelOf(2) = 0
    /\ IsDirLine(3) /\ LevelOf(3) = 1
    /\ IsDirLine(4) /\ LevelOf(4) = 0
    /\ Len(parentStack) = 2
    /\ parentStack[2] = NameOf(1) \o NameOf(4)

----------------------------------------------------------------------------
(* Equivalence of parseDirectoryFromText and parseDirectoryStructure *)

\* A call stripped of its outcome.
Issued(c) == [op |-> c.op, arg |-> c.arg]

\* The creations of a sequence of calls, stripped of their outcomes.
IssuedCreations(s) ==
    LET c == CreationsOf(s) IN [k \in 1..Len(c) |-> Issued(c[k])]

\* Both functions have resolved.
BothReturned == calls # <<>> /\ mode = "file" /\ mpc = "returned"

\* C29: when the file read by parseDirectoryStructure holds the text given
\* to parseDirectoryFromText, and the options, the answer and the behaviour
\* of the file system are the same, both issue the same sequence of mkdir
\* and writeFile calls with the same arguments and resolve with the same
\* success value.
C29_SameCreationsFromFileAndText ==
    BothReturned =>
        /\ IssuedCreations(ops) = IssuedCreations(calls[1].ops)
        /\ ret.success = calls[1].ret.success

\* Both functions were asked to confirm, created a directory and the parent
\* of a file, and failed on the same writeFile.
C29_Witness ==
    /\ BothReturned
    /\ asked
    /\ ~ret.success
    /\ ret.error.op = "writeFile"
    /\ Len(CreationsOf(ops)) >= 3
    /\ ops[1].op = "readFile"
    /\ outputDir = <<"o">>

============================================================================
